---- MODULE Spec2Model ----
(***************************************************************************)
(* Model of the report-layout generator: the keyword-driven mock assembler *)
(* (report_generator_mock.py), the HTTP gateway (main.py), the resilient   *)
(* Agents-SDK generators (report_generator_agents_sdk.py and _v2.py) and   *)
(* the strict stage pipeline (openai_agents_sdk_sample.py).                *)
(*                                                                         *)
(* Texts are sequences of characters.  The Japanese characters of the      *)
(* source are written in romanised form, one string per character:         *)
(*   uri age = "sales", sui i = "trend", ka te go ri = "category",         *)
(*   hi kaku = "comparison", betsu = "by-X", K P I, shi hyo = "indicator", *)
(*   sa ma ri - = "summary", re po - to = "report", nl = line feed.        *)
(* Paths are sequences of path fragments.                                  *)
(***************************************************************************)
EXTENDS Integers, Sequences, FiniteSets, TLC

VARIABLES
    user_request,   \* request text handed to the generator
    s3_paths,       \* list of storage paths handed to the generator
    now,            \* the wall clock, in ticks
    timestamp,      \* MockReportGenerator.timestamp (NoTimestamp before __init__)
    docs,           \* documents returned by generate_report, in call order
    env,            \* process environment of the gateway
    x_api_key,      \* x-api-key header of the POST request (<<>> when absent)
    gw_pc,          \* position of the POST /generate-report request
    raised,         \* HTTPException in flight (<<>> when none)
    response,       \* body returned to the client (<<>> before)
    gw_trace,       \* steps the gateway has run for the request, in order
    requests,       \* POST requests in flight together: per request its body, position and locals
    sdk_pc,         \* position of the resilient generator's generate_report call
    sdk_variant,    \* which resilient generator ran: "v1" or "v2"
    sdk_outcome,    \* what the backend run did: raised, or its final_output
    sdk_return,     \* what generate_report returned and by which branch
    csv_files,      \* process_csv_report: the input files
    pipe_pc,        \* process_csv_report: the stage to enter next
    file_idx,       \* process_csv_report: position of the METADATA loop in csv_files
    calls,          \* backend calls issued so far: stage, payload and whether the stage succeeded
    stage_raw,      \* final_output of the latest backend call (<<>> before the first)
    goal,           \* Goal of the run (<<>> until set)
    csv_metadata_results,   \* CSVMetadata list of the run
    requirements,   \* Requirement of the run (<<>> until set)
    gaps,           \* DataGap of the run (<<>> until set)
    completer_dict, \* coerced output of the Completion stage (<<>> until set)
    sections,       \* ReportSection list of the run
    final_json,     \* coerced output of the JSON Generation stage (<<>> until set)
    json_result,    \* final_output of the JSON Generation stage (<<>> until set)
    pipe_error,     \* exception process_csv_report ended with (<<>> when none)
    pipe_return,    \* value process_csv_report returned (<<>> when none)
    agent_pc,       \* position of ReportGeneratorAgent.generate_report
    backend_status, \* status of the run as the backend holds it
    backend_calls,  \* tool calls the backend asks for while it requires action
    backend_message,    \* content of the assistant message of the thread (<<>> when none)
    run_status,     \* run.status as last retrieved by generate_report
    tool_calls,     \* tool_calls of the required action last retrieved
    tool_outputs,   \* the batch last handed to submit_tool_outputs (<<>> before), with run.status then
    observed,       \* passes of the polling loop that found requires_action
    submitted,      \* calls of submit_tool_outputs
    agent_return,   \* value generate_report returned (<<>> when none)
    agent_error,    \* exception generate_report ended with (<<>> when none)
    key_environ,    \* os.environ as get_openai_api_key reads it
    secret_response,    \* what Secrets Manager answers to get_secret_value
    key_pc,         \* position of the get_openai_api_key call
    key_return      \* what get_openai_api_key returned or raised (<<>> before)

mockVars == <<user_request, s3_paths, now, timestamp, docs>>
gwVars == <<env, x_api_key, gw_pc, raised, response, gw_trace, requests>>
sdkVars == <<sdk_pc, sdk_variant, sdk_outcome, sdk_return>>
pipeVars == <<csv_files, pipe_pc, file_idx, calls, stage_raw, goal, csv_metadata_results,
              requirements, gaps, completer_dict, sections, final_json, json_result,
              pipe_error, pipe_return>>
agentVars == <<agent_pc, backend_status, backend_calls, backend_message, run_status,
               tool_calls, tool_outputs, observed, submitted, agent_return,
               agent_error>>
keyVars == <<key_environ, secret_response, key_pc, key_return>>
vars == <<mockVars, gwVars, sdkVars, pipeVars, agentVars, keyVars>>

(***************************************************************************)
(* Bounds                                                                  *)
(***************************************************************************)
MaxReqWords == 2    \* words per request text
MaxPaths == 2       \* paths per request
MaxIdemWords == 1   \* words per request text when a generator is called repeatedly
MaxClock == 2       \* clock ticks per behaviour
MaxCalls == 2       \* generate_report calls on one request
TicksPerMs == 2     \* clock ticks in one millisecond
MaxFiles == 2       \* input files per pipeline run
MaxScenarioWords == 3   \* words per request text of the usage scenario

NoTimestamp == -1

(***************************************************************************)
(* Texts                                                                   *)
(***************************************************************************)
KW_URIAGE == <<"uri", "age">>
KW_SUII == <<"sui", "i">>
KW_CATEGORY == <<"ka", "te", "go", "ri">>
KW_HIKAKU == <<"hi", "kaku">>
KW_BETSU == <<"betsu">>
KW_KPI == <<"K", "P", "I">>
KW_SHIHYO == <<"shi", "hyo">>
KW_SUMMARY == <<"sa", "ma", "ri", "-">>
REPORT == <<"re", "po", "-", "to">>
NEWLINE == "nl"

Keywords ==
    {KW_URIAGE, KW_SUII, KW_CATEGORY, KW_HIKAKU, KW_BETSU, KW_KPI, KW_SHIHYO, KW_SUMMARY}

\* Words the request texts are built from: the keywords, the report suffix,
\* a filler word and a line feed.
Vocabulary == Keywords \cup {REPORT, <<"getsu", "ji">>, <<NEWLINE>>}

RECURSIVE Flatten(_)
Flatten(ws) == IF ws = <<>> THEN <<>> ELSE Head(ws) \o Flatten(Tail(ws))

WordLists(n) == UNION {[1..k -> Vocabulary] : k \in 0..n}

RequestTexts == {Flatten(ws) : ws \in WordLists(MaxReqWords)}

IdemTexts == {Flatten(ws) : ws \in WordLists(MaxIdemWords)}

\* Python's `sub in text` on strings.
Contains(text, sub) ==
    \E i \in 1..(Len(text) - Len(sub) + 1) : SubSeq(text, i, i + Len(sub) - 1) = sub

\* Python's list membership, `x in xs`.
InList(x, xs) == \E i \in 1..Len(xs) : xs[i] = x

(***************************************************************************)
(* Paths                                                                   *)
(***************************************************************************)
BUCKET == "kizukai-ds-tmp"
BASE == <<"s3://", BUCKET, "/", "input_data/">>
DAILY_PATH == BASE \o <<"daily", "-sales.json">>
CATEGORY_PATH == BASE \o <<"category", "-sales.json">>
BOTH_PATH == BASE \o <<"daily", "-", "category", ".json">>
PLAIN_PATH == BASE \o <<"stock.json">>

MockPaths == {DAILY_PATH, CATEGORY_PATH, BOTH_PATH, PLAIN_PATH}

PathLists(pool, n) == UNION {[1..k -> pool] : k \in 0..n}

(***************************************************************************)
(* MockReportGenerator                                                     *)
(***************************************************************************)
\* re.search(r'(.+?REPORT)', text): the leftmost start i from which one or more
\* characters other than a line feed are followed by REPORT, and from that
\* start the nearest such REPORT.
TitleEnds(text, i) ==
    {j \in (i + 1)..(Len(text) - Len(REPORT) + 1) :
        /\ SubSeq(text, j, j + Len(REPORT) - 1) = REPORT
        /\ \A k \in i..(j - 1) : text[k] # NEWLINE}

TitleStarts(text) == {i \in 1..Len(text) : TitleEnds(text, i) # {}}

Min(S) == CHOOSE m \in S : \A n \in S : m <= n

ExtractTitle(text) ==
    IF TitleStarts(text) = {} THEN REPORT
    ELSE LET i == Min(TitleStarts(text))
             j == Min(TitleEnds(text, i))
         IN SubSeq(text, i, j + Len(REPORT) - 1)

\* the three keyword groups tried as alternatives, the first match only
SelectComponents_exclusive(text) ==
    IF Contains(text, KW_URIAGE) \/ Contains(text, KW_SUII) THEN <<"DataTable">>
    ELSE IF Contains(text, KW_CATEGORY) \/ Contains(text, KW_HIKAKU)
            \/ Contains(text, KW_BETSU) THEN <<"BarChart">>
    ELSE IF Contains(text, KW_KPI) \/ Contains(text, KW_SHIHYO)
            \/ Contains(text, KW_SUMMARY) THEN <<"Card">>
    ELSE <<>>

SelectComponents(text) ==
    LET table == IF Contains(text, KW_URIAGE) \/ Contains(text, KW_SUII)
                 THEN <<"DataTable">> ELSE <<>>
        chart == IF Contains(text, KW_CATEGORY) \/ Contains(text, KW_HIKAKU)
                      \/ Contains(text, KW_BETSU)
                 THEN <<"BarChart">> ELSE <<>>
        card == IF Contains(text, KW_KPI) \/ Contains(text, KW_SHIHYO)
                     \/ Contains(text, KW_SUMMARY)
                THEN <<"Card">> ELSE <<>>
    IN table \o chart \o card

\* analyze_request without the default for an empty selection
analyze_request_nodefault(text) ==
    [title |-> ExtractTitle(text), components |-> SelectComponents(text)]

analyze_request(text) ==
    LET components == SelectComponents(text)
    IN [title |-> ExtractTitle(text),
        components |-> IF components # <<>> THEN components ELSE <<"Card", "DataTable">>]

Max(S) == CHOOSE m \in S : \A n \in S : m >= n

\* the last matching path instead of the first
FirstWith_last(paths, marker, default) ==
    LET hits == {i \in 1..Len(paths) : Contains(paths[i], <<marker>>)}
    IN IF hits = {} THEN default ELSE paths[Max(hits)]

\* next((p for p in paths if marker in p), default)
FirstWith(paths, marker, default) ==
    LET hits == {i \in 1..Len(paths) : Contains(paths[i], <<marker>>)}
    IN IF hits = {} THEN default ELSE paths[Min(hits)]

SectionId(prefix, n) == [prefix |-> prefix, n |-> n]

Content(source, component, value, props) ==
    [source |-> source, component |-> component, value |-> value, props |-> props]

NoProps == [none |-> TRUE]

HeaderSection(title) ==
    [id |-> SectionId("section_header_", 1), type |-> "Default", component |-> "MainHeader",
     contents |-> <<Content("TEXT", "MainHeader", title, NoProps)>>]

MainSection(n, component, title, description, content) ==
    [id |-> SectionId("section_main_", n), type |-> "Default", component |-> component,
     title |-> title, description |-> description, contents |-> <<content>>]

CardSection(n) ==
    MainSection(n, "Card", "sales summary", "main KPI",
        Content("TEXT", "Card", <<>>,
            [title |-> "sales this month", description |-> "+15%",
             content |-> "45,280,000", footer |-> "112%"]))

\* the table section on a path of its own
TableSection_fixedpath(n, path) ==
    MainSection(n, "DataTable", "sales detail", "daily sales trend",
        Content("S3", "DataTable", BASE \o <<"daily", "-sales.json">>, NoProps))

TableSection(n, path) ==
    MainSection(n, "DataTable", "sales detail", "daily sales trend",
        Content("S3", "DataTable", path, NoProps))

\* the chart section without its field properties
ChartSection_noprops(n, path) ==
    MainSection(n, "BarChart", "sales by category", "category comparison",
        Content("S3", "BarChart", path, NoProps))

ChartSection(n, path) ==
    MainSection(n, "BarChart", "sales by category", "category comparison",
        Content("S3", "BarChart", path,
            [xField |-> "category", yFields |-> <<"sales", "profit">>]))

TextSection(n) ==
    MainSection(n, "TextField", "note", "",
        Content("TEXT", "TextField", <<"auto-generated note">>, NoProps))

ReportId(ts) == [prefix |-> "report_", n |-> ts]

\* datetime.now().isoformat() + "Z"
IsoZ(t) == [iso |-> t, suffix |-> "Z"]

\* the chart section put before the table section
MockMain_chartfirst(components, paths) ==
    LET card == IF InList("Card", components) THEN <<CardSection(1)>> ELSE <<>>
        n1 == 1 + Len(card)
        chart == IF InList("BarChart", components) /\ Len(paths) > 1
                 THEN <<ChartSection(n1, FirstWith(paths, "category", paths[2]))>>
                 ELSE <<>>
        n2 == n1 + Len(chart)
        table == IF InList("DataTable", components) /\ Len(paths) > 0
                 THEN <<TableSection(n2, FirstWith(paths, "daily", paths[1]))>>
                 ELSE <<>>
        n3 == n2 + Len(table)
    IN card \o chart \o table \o <<TextSection(n3)>>

\* section_id counted for a selected component that is skipped as well
MockMain_gapids(components, paths) ==
    LET card == IF InList("Card", components) THEN <<CardSection(1)>> ELSE <<>>
        n1 == 1 + Len(card)
        table == IF InList("DataTable", components) /\ Len(paths) > 0
                 THEN <<TableSection(n1, FirstWith(paths, "daily", paths[1]))>>
                 ELSE <<>>
        n2 == n1 + (IF InList("DataTable", components) THEN 1 ELSE 0)
        chart == IF InList("BarChart", components) /\ Len(paths) > 1
                 THEN <<ChartSection(n2, FirstWith(paths, "category", paths[2]))>>
                 ELSE <<>>
        n3 == n2 + (IF InList("BarChart", components) THEN 1 ELSE 0)
    IN card \o table \o chart \o <<TextSection(n3)>>

\* the table section built without looking at the number of paths
MockMain_tablealways(components, paths) ==
    LET card == IF InList("Card", components) THEN <<CardSection(1)>> ELSE <<>>
        n1 == 1 + Len(card)
        table == IF InList("DataTable", components)
                 THEN <<TableSection(n1, IF paths = <<>> THEN <<>>
                                         ELSE FirstWith(paths, "daily", paths[1]))>>
                 ELSE <<>>
        n2 == n1 + Len(table)
        chart == IF InList("BarChart", components) /\ Len(paths) > 1
                 THEN <<ChartSection(n2, FirstWith(paths, "category", paths[2]))>>
                 ELSE <<>>
        n3 == n2 + Len(chart)
    IN card \o table \o chart \o <<TextSection(n3)>>

\* the chart falling back to the first path instead of the second
MockMain_firstdefault(components, paths) ==
    LET card == IF InList("Card", components) THEN <<CardSection(1)>> ELSE <<>>
        n1 == 1 + Len(card)
        table == IF InList("DataTable", components) /\ Len(paths) > 0
                 THEN <<TableSection(n1, FirstWith(paths, "daily", paths[1]))>>
                 ELSE <<>>
        n2 == n1 + Len(table)
        chart == IF InList("BarChart", components) /\ Len(paths) > 1
                 THEN <<ChartSection(n2, FirstWith(paths, "category", paths[1]))>>
                 ELSE <<>>
        n3 == n2 + Len(chart)
    IN card \o table \o chart \o <<TextSection(n3)>>

MockMain(components, paths) ==
    LET card == IF InList("Card", components) THEN <<CardSection(1)>> ELSE <<>>
        n1 == 1 + Len(card)
        table == IF InList("DataTable", components) /\ Len(paths) > 0
                 THEN <<TableSection(n1, FirstWith(paths, "daily", paths[1]))>>
                 ELSE <<>>
        n2 == n1 + Len(table)
        chart == IF InList("BarChart", components) /\ Len(paths) > 1
                 THEN <<ChartSection(n2, FirstWith(paths, "category", paths[2]))>>
                 ELSE <<>>
        n3 == n2 + Len(chart)
    IN card \o table \o chart \o <<TextSection(n3)>>

\* the header section numbered from the clock
generate_report_clocked(text, paths, ts, t) ==
    LET analysis == analyze_request(text)
    IN [reportId |-> ReportId(ts),
        title |-> analysis.title,
        createdAt |-> IsoZ(t),
        createdBy |-> "agent_generated",
        sections |-> [header |-> <<[HeaderSection(analysis.title)
                                      EXCEPT !.id = SectionId("section_header_", 1 + t)]>>,
                      main |-> MockMain(analysis.components, paths)]]

generate_report(text, paths, ts, t) ==
    LET analysis == analyze_request(text)
    IN [reportId |-> ReportId(ts),
        title |-> analysis.title,
        createdAt |-> IsoZ(t),
        createdBy |-> "agent_generated",
        sections |-> [header |-> <<HeaderSection(analysis.title)>>,
                      main |-> MockMain(analysis.components, paths)]]

(***************************************************************************)
(* The mock generator driven directly                                      *)
(***************************************************************************)
GwIdle ==
    /\ env = [API_KEY_REQUIRED |-> <<>>, API_KEY |-> <<>>, ALLOWED_S3_BUCKET |-> <<>>]
    /\ x_api_key = <<>>
    /\ gw_pc = "none"
    /\ raised = <<>>
    /\ response = <<>>
    /\ gw_trace = <<>>
    /\ requests = <<>>

SdkIdle ==
    /\ sdk_pc = "none"
    /\ sdk_variant = "none"
    /\ sdk_outcome = <<>>
    /\ sdk_return = <<>>

AgentIdle ==
    /\ agent_pc = "none"
    /\ backend_status = "none"
    /\ backend_calls = <<>>
    /\ backend_message = <<>>
    /\ run_status = "none"
    /\ tool_calls = <<>>
    /\ tool_outputs = <<>>
    /\ observed = 0
    /\ submitted = 0
    /\ agent_return = <<>>
    /\ agent_error = <<>>

KeyIdle ==
    /\ key_environ = <<>>
    /\ secret_response = <<>>
    /\ key_pc = "none"
    /\ key_return = <<>>

PipeIdle ==
    /\ csv_files = <<>>
    /\ pipe_pc = "none"
    /\ file_idx = 1
    /\ calls = <<>>
    /\ stage_raw = <<>>
    /\ goal = <<>>
    /\ csv_metadata_results = <<>>
    /\ requirements = <<>>
    /\ gaps = <<>>
    /\ completer_dict = <<>>
    /\ sections = <<>>
    /\ final_json = <<>>
    /\ json_result = <<>>
    /\ pipe_error = <<>>
    /\ pipe_return = <<>>

MockInit ==
    /\ GwIdle
    /\ SdkIdle
    /\ AgentIdle
    /\ KeyIdle
    /\ PipeIdle
    /\ user_request \in RequestTexts
    /\ s3_paths \in PathLists(MockPaths, MaxPaths)
    /\ now = 0
    /\ timestamp = NoTimestamp
    /\ docs = <<>>

\* MockReportGenerator.__init__
NewGenerator ==
    /\ timestamp' = now \div TicksPerMs
    /\ timestamp' # timestamp
    /\ UNCHANGED <<user_request, s3_paths, now, docs>>
    /\ UNCHANGED <<gwVars, sdkVars, agentVars, keyVars, pipeVars>>

\* MockReportGenerator.generate_report, at most `limit` calls
GenerateCall(limit) ==
    /\ timestamp # NoTimestamp
    /\ Len(docs) < limit
    /\ docs' = Append(docs, [ts |-> timestamp, at |-> now,
                             analysis |-> analyze_request(user_request),
                             doc |-> generate_report(user_request, s3_paths, timestamp, now)])
    /\ UNCHANGED <<user_request, s3_paths, now, timestamp>>
    /\ UNCHANGED <<gwVars, sdkVars, agentVars, keyVars, pipeVars>>

Generate == GenerateCall(1)

MockNext == NewGenerator \/ Generate

SpecMock == MockInit /\ [][MockNext]_vars

(***************************************************************************)
(* The usage scenario of report_generator_mock.py: requests naming sales,  *)
(* categories and a report                                                 *)
(***************************************************************************)
ScenarioWords == {KW_URIAGE, KW_CATEGORY, KW_KPI, REPORT, <<NEWLINE>>}

ScenarioTexts ==
    {Flatten(ws) : ws \in UNION {[1..k -> ScenarioWords] : k \in 0..MaxScenarioWords}}

ScenarioInit ==
    /\ GwIdle
    /\ SdkIdle
    /\ AgentIdle
    /\ KeyIdle
    /\ PipeIdle
    /\ user_request \in ScenarioTexts
    /\ s3_paths \in PathLists(MockPaths, MaxPaths)
    /\ now = 0
    /\ timestamp = NoTimestamp
    /\ docs = <<>>

SpecScenario == ScenarioInit /\ [][MockNext]_vars

(***************************************************************************)
(* One request assembled repeatedly while the clock runs                   *)
(***************************************************************************)
IdemInit ==
    /\ GwIdle
    /\ SdkIdle
    /\ AgentIdle
    /\ KeyIdle
    /\ PipeIdle
    /\ user_request \in IdemTexts
    /\ s3_paths \in PathLists({DAILY_PATH, CATEGORY_PATH}, MaxPaths)
    /\ now = 0
    /\ timestamp = NoTimestamp
    /\ docs = <<>>

Tick ==
    /\ now < MaxClock
    /\ now' = now + 1
    /\ UNCHANGED <<user_request, s3_paths, timestamp, docs>>
    /\ UNCHANGED <<gwVars, sdkVars, agentVars, keyVars, pipeVars>>

GenerateAgain == GenerateCall(MaxCalls)

IdemNext == Tick \/ NewGenerator \/ GenerateAgain

SpecIdem == IdemInit /\ [][IdemNext]_vars

(***************************************************************************)
(* Request gateway (main.py)                                               *)
(***************************************************************************)
\* str.lower() on the letters the environment values are written with
LowerChar(c) ==
    CASE c = "T" -> "t" [] c = "R" -> "r" [] c = "U" -> "u" [] c = "E" -> "e"
      [] c = "F" -> "f" [] c = "A" -> "a" [] c = "L" -> "l" [] c = "S" -> "s"
      [] OTHER -> c

Lower(text) == [k \in 1..Len(text) |-> LowerChar(text[k])]

STR_TRUE == <<"t", "r", "u", "e">>
STR_FALSE == <<"f", "a", "l", "s", "e">>
DEFAULT_API_KEY == "your-secure-api-key"

\* os.getenv(name, default): an unset variable is <<>>, a set one <<value>>
Getenv(name, default) == IF env[name] = <<>> THEN default ELSE env[name][1]

\* str.startswith
StartsWith(text, prefix) ==
    Len(text) >= Len(prefix) /\ SubSeq(text, 1, Len(prefix)) = prefix

HTTPException(status_code, text, path) ==
    [status_code |-> status_code, detail |-> [text |-> text, path |-> path]]

\* the API-key check without the lower-casing of API_KEY_REQUIRED
verify_api_key_exact(header) ==
    IF Getenv("API_KEY_REQUIRED", STR_TRUE) = STR_FALSE
    THEN [ok |-> TRUE, exc |-> <<>>]
    ELSE IF header = <<>> \/ header = <<"">>
    THEN [ok |-> FALSE, exc |-> <<HTTPException(403, "API Key required", <<>>)>>]
    ELSE IF header[1] # Getenv("API_KEY", DEFAULT_API_KEY)
    THEN [ok |-> FALSE, exc |-> <<HTTPException(403, "Invalid API Key", <<>>)>>]
    ELSE [ok |-> TRUE, exc |-> <<>>]

verify_api_key(header) ==
    IF Lower(Getenv("API_KEY_REQUIRED", STR_TRUE)) = STR_FALSE
    THEN [ok |-> TRUE, exc |-> <<>>]
    ELSE IF header = <<>> \/ header = <<"">>
    THEN [ok |-> FALSE, exc |-> <<HTTPException(403, "API Key required", <<>>)>>]
    ELSE IF header[1] # Getenv("API_KEY", DEFAULT_API_KEY)
    THEN [ok |-> FALSE, exc |-> <<HTTPException(403, "Invalid API Key", <<>>)>>]
    ELSE [ok |-> TRUE, exc |-> <<>>]

AllowedPrefix == <<"s3://", Getenv("ALLOWED_S3_BUCKET", BUCKET), "/">>

\* the whitelist loop reporting the last offending path instead of the first
InvalidPaths_last(paths) ==
    LET bad == {i \in 1..Len(paths) : ~StartsWith(paths[i], AllowedPrefix)}
    IN IF bad = {} THEN <<>> ELSE <<paths[Max(bad)]>>

\* the whitelist loop: the path it raises on (<<>> when it completes)
InvalidPaths(paths) ==
    LET bad == {i \in 1..Len(paths) : ~StartsWith(paths[i], AllowedPrefix)}
    IN IF bad = {} THEN <<>> ELSE <<paths[Min(bad)]>>

OTHER_BUCKET == "other-bucket"
OTHER_BUCKET_PATH == <<"s3://", OTHER_BUCKET, "/", "input_data/", "daily", "-sales.json">>
LOOKALIKE_PATH == <<"s3://", BUCKET, "-evil/", "category", ".json">>

GatewayPaths == {DAILY_PATH, CATEGORY_PATH, OTHER_BUCKET_PATH, LOOKALIKE_PATH}

\* the example request of ReportRequest
EXAMPLE_REQUEST ==
    Flatten(<<<<"getsu", "ji">>, KW_URIAGE, REPORT, <<"wo">>, <<"hi">>, KW_BETSU, KW_URIAGE,
              KW_SUII, KW_CATEGORY, KW_BETSU, KW_URIAGE>>)

GatewayTexts == {EXAMPLE_REQUEST, <<"getsu", "ji">>}

GatewayEnvs ==
    [API_KEY_REQUIRED : {<<>>, <<STR_TRUE>>, <<STR_FALSE>>, <<<<"F", "a", "l", "s", "e">>>>},
     API_KEY : {<<>>, <<"secret">>},
     ALLOWED_S3_BUCKET : {<<>>, <<OTHER_BUCKET>>}]

GatewayHeaders == {<<>>, <<"">>, <<"secret">>, <<DEFAULT_API_KEY>>}

GatewayInit ==
    /\ user_request \in GatewayTexts
    /\ s3_paths \in PathLists(GatewayPaths, MaxPaths)
    /\ now = 0
    /\ timestamp = NoTimestamp
    /\ docs = <<>>
    /\ env \in GatewayEnvs
    /\ x_api_key \in GatewayHeaders
    /\ gw_pc = "received"
    /\ raised = <<>>
    /\ response = <<>>
    /\ gw_trace = <<>>
    /\ requests = <<>>
    /\ SdkIdle
    /\ AgentIdle
    /\ KeyIdle
    /\ PipeIdle

\* dependencies=[Depends(verify_api_key)]: runs before the endpoint function
VerifyApiKey ==
    /\ gw_pc = "received"
    /\ LET r == verify_api_key(x_api_key)
       IN /\ gw_pc' = IF r.ok THEN "endpoint" ELSE "raised"
          /\ raised' = r.exc
    /\ gw_trace' = Append(gw_trace, "verify_api_key")
    /\ UNCHANGED <<env, x_api_key, response, requests>>
    /\ UNCHANGED <<mockVars, sdkVars, agentVars, keyVars, pipeVars>>

\* generate_report of main.py: the whitelist loop, then the generator
Endpoint ==
    /\ gw_pc = "endpoint"
    /\ LET bad == InvalidPaths(s3_paths)
       IN IF bad # <<>>
          THEN /\ raised' = <<HTTPException(400, "Invalid S3 path: ", bad[1])>>
               /\ gw_pc' = "raised"
               /\ gw_trace' = Append(gw_trace, "validate_paths")
               /\ UNCHANGED <<timestamp, docs, response>>
          ELSE /\ timestamp' = now \div TicksPerMs
               /\ docs' = Append(docs, [ts |-> timestamp', at |-> now,
                                        analysis |-> analyze_request(user_request),
                                        doc |-> generate_report(user_request, s3_paths,
                                                                timestamp', now)])
               /\ response' = <<[status |-> "success", report |-> docs'[Len(docs')].doc,
                                 generated_at |-> now]>>
               /\ gw_pc' = "done"
               /\ gw_trace' = gw_trace \o <<"validate_paths", "MockReportGenerator",
                                            "generate_report">>
               /\ UNCHANGED raised
    /\ UNCHANGED <<user_request, s3_paths, now, env, x_api_key, requests>>
    /\ UNCHANGED <<sdkVars, agentVars, keyVars, pipeVars>>

\* http_exception_handler
HttpExceptionHandler ==
    /\ gw_pc = "raised"
    /\ response' = <<[error |-> TRUE, message |-> raised[1].detail,
                      status_code |-> raised[1].status_code, timestamp |-> now]>>
    /\ gw_pc' = "done"
    /\ UNCHANGED <<env, x_api_key, raised, gw_trace, requests>>
    /\ UNCHANGED <<mockVars, sdkVars, agentVars, keyVars, pipeVars>>

GatewayNext == VerifyApiKey \/ Endpoint \/ HttpExceptionHandler

SpecGateway == GatewayInit /\ [][GatewayNext]_vars

(***************************************************************************)
(* Two POST /generate-report requests handled together                     *)
(***************************************************************************)
Requests == {1, 2}

ConcurrentTexts == {EXAMPLE_REQUEST, KW_KPI \o REPORT}

ConcurrentPaths == {DAILY_PATH, OTHER_BUCKET_PATH}

\* a request as it arrives: its body and header, and the locals of its handler
Arrived(text, paths, header) ==
    [user_request |-> text, s3_paths |-> paths, x_api_key |-> header, pc |-> "received",
     timestamp |-> NoTimestamp, raised |-> <<>>, report |-> <<>>, response |-> <<>>]

\* a request object kept in one place for all handlers: a handler sees the
\* request that was taken up last
RequestSeen_shared(reqs, r) ==
    reqs[Max({q \in Requests : q = r \/ reqs[q].pc # "received"})]

\* the `request` parameter of the handler of request r
RequestSeen(reqs, r) == reqs[r]

ConcurrentInit ==
    /\ SdkIdle
    /\ AgentIdle
    /\ KeyIdle
    /\ PipeIdle
    /\ user_request = <<>>
    /\ s3_paths = <<>>
    /\ now = 0
    /\ timestamp = NoTimestamp
    /\ docs = <<>>
    /\ env = [API_KEY_REQUIRED |-> <<>>, API_KEY |-> <<"secret">>, ALLOWED_S3_BUCKET |-> <<>>]
    /\ x_api_key = <<>>
    /\ gw_pc = "none"
    /\ raised = <<>>
    /\ response = <<>>
    /\ gw_trace = <<>>
    /\ requests \in [Requests -> {Arrived(text, paths, <<"secret">>) :
                                    text \in ConcurrentTexts,
                                    paths \in PathLists(ConcurrentPaths, MaxPaths)}]

\* what a step of request r leaves alone
OthersUnchanged ==
    /\ UNCHANGED <<env, x_api_key, gw_pc, raised, response, gw_trace>>
    /\ UNCHANGED <<mockVars, sdkVars, agentVars, keyVars, pipeVars>>

\* dependencies=[Depends(verify_api_key)]
ConcVerify(r) ==
    /\ requests[r].pc = "received"
    /\ LET v == verify_api_key(RequestSeen(requests, r).x_api_key)
       IN requests' = [requests EXCEPT ![r].pc = IF v.ok THEN "endpoint" ELSE "raised",
                                       ![r].raised = v.exc]
    /\ OthersUnchanged

\* lines 97-101: the whitelist loop
ConcValidate(r) ==
    /\ requests[r].pc = "endpoint"
    /\ LET bad == InvalidPaths(RequestSeen(requests, r).s3_paths)
       IN requests' = [requests EXCEPT
                          ![r].pc = IF bad = <<>> THEN "validated" ELSE "raised",
                          ![r].raised = IF bad = <<>> THEN <<>>
                                        ELSE <<HTTPException(400, "Invalid S3 path: ", bad[1])>>]
    /\ OthersUnchanged

\* line 105: generator = MockReportGenerator()
ConcConstruct(r) ==
    /\ requests[r].pc = "validated"
    /\ requests' = [requests EXCEPT ![r].pc = "constructed",
                                    ![r].timestamp = now \div TicksPerMs]
    /\ OthersUnchanged

\* lines 106-117: generator.generate_report(...) and the response body
ConcGenerate(r) ==
    /\ requests[r].pc = "constructed"
    /\ LET seen == RequestSeen(requests, r)
           report == generate_report(seen.user_request, seen.s3_paths,
                                     requests[r].timestamp, now)
       IN requests' = [requests EXCEPT
                          ![r].pc = "done",
                          ![r].report = <<report>>,
                          ![r].response = <<[status |-> "success", report |-> report,
                                             generated_at |-> now]>>]
    /\ OthersUnchanged

\* http_exception_handler
ConcHandle(r) ==
    /\ requests[r].pc = "raised"
    /\ requests' = [requests EXCEPT
                       ![r].pc = "done",
                       ![r].response = <<[error |-> TRUE,
                                          message |-> requests[r].raised[1].detail,
                                          status_code |-> requests[r].raised[1].status_code,
                                          timestamp |-> now]>>]
    /\ OthersUnchanged

ConcurrentNext ==
    \/ Tick
    \/ \E r \in Requests :
          ConcVerify(r) \/ ConcValidate(r) \/ ConcConstruct(r) \/ ConcGenerate(r)
              \/ ConcHandle(r)

SpecConcurrent == ConcurrentInit /\ [][ConcurrentNext]_vars

(***************************************************************************)
(* Backend output texts and their parsing                                  *)
(*                                                                         *)
(* A text the backend returns is a sequence of tokens: code fences, white  *)
(* space, brackets, the members of a JSON object, the items of a JSON      *)
(* list, and prose.  A fence is the three-backtick mark, FENCE below.     *)
(***************************************************************************)
Tok(t) == [t |-> t]
Member(k, v) == [t |-> "member", k |-> k, v |-> v]
Item(v) == [t |-> "item", v |-> v]
FENCE_JSON == Tok("fence_json")
FENCE_END == Tok("fence")
NL == Tok("nl")
SP == Tok("sp")
PROSE == Tok("prose")

IsWs(tok) == tok.t \in {"nl", "sp"}

\* a token whose text begins with three backticks
IsFence(tok) == tok.t \in {"fence", "fence_json", "fence_python"}

\* \s* from position i: the first position at or after i that holds no white space
SkipWs(text, i) == Min({j \in i..(Len(text) + 1) : j = Len(text) + 1 \/ ~IsWs(text[j])})

\* re.search(r'FENCE(labels)\s*(open.*?close)\s*FENCE', text, re.DOTALL): <<group 1>>,
\* or <<>> when nothing matches
FencedEnds(text, a, close) ==
    {b \in (a + 1)..Len(text) :
        /\ text[b].t = close
        /\ SkipWs(text, b + 1) <= Len(text)
        /\ IsFence(text[SkipWs(text, b + 1)])}

FencedStarts(text, labels, open, close) ==
    {i \in 1..Len(text) :
        /\ text[i].t \in labels
        /\ SkipWs(text, i + 1) <= Len(text)
        /\ text[SkipWs(text, i + 1)].t = open
        /\ FencedEnds(text, SkipWs(text, i + 1), close) # {}}

FencedSearch(text, labels, open, close) ==
    IF FencedStarts(text, labels, open, close) = {} THEN <<>>
    ELSE LET a == SkipWs(text, Min(FencedStarts(text, labels, open, close)) + 1)
         IN <<SubSeq(text, a, Min(FencedEnds(text, a, close)))>>

\* re.search(r'FENCEjson\n(.*?)\n FENCE', text, re.DOTALL)
FencedEndsV1(text, i) ==
    {j \in (i + 2)..(Len(text) - 1) : text[j].t = "nl" /\ IsFence(text[j + 1])}

FencedStartsV1(text) ==
    {i \in 1..(Len(text) - 1) :
        /\ text[i].t = "fence_json"
        /\ text[i + 1].t = "nl"
        /\ FencedEndsV1(text, i) # {}}

FencedSearchV1(text) ==
    IF FencedStartsV1(text) = {} THEN <<>>
    ELSE LET i == Min(FencedStartsV1(text))
         IN <<SubSeq(text, i + 2, Min(FencedEndsV1(text, i)) - 1)>>

NotWs(tok) == ~IsWs(tok)

\* the characters of a JSON string are no structure to json.loads: a member
\* whose text holds a closing brace and three backticks (see
\* json_dumps_embedded) is read as the one member it is, and a member cut
\* short inside its text stays a token that is no member
RECURSIVE Rejoin(_)
Rejoin(body) ==
    IF body = <<>> THEN <<>>
    ELSE IF Len(body) >= 4 /\ body[1].t = "member_head" /\ body[2].t = "}"
            /\ IsFence(body[3]) /\ body[4].t = "member_tail"
    THEN <<[t |-> "member", k |-> body[1].k, v |-> body[1].v]>>
             \o Rejoin(SubSeq(body, 5, Len(body)))
    ELSE <<Head(body)>> \o Rejoin(Tail(body))

\* json.loads: an object, a list, or a decode error
json_loads(text) ==
    LET body == Rejoin(SelectSeq(text, NotWs))
        n == Len(body)
    IN IF n >= 2 /\ body[1].t = "{" /\ body[n].t = "}"
          /\ \A k \in 2..(n - 1) : body[k].t = "member"
       THEN [ok |-> TRUE, kind |-> "object",
             value |-> [key \in {body[k].k : k \in 2..(n - 1)} |->
                          body[Max({k \in 2..(n - 1) : body[k].k = key})].v]]
       ELSE IF n >= 2 /\ body[1].t = "[" /\ body[n].t = "]"
               /\ \A k \in 2..(n - 1) : body[k].t = "item"
       THEN [ok |-> TRUE, kind |-> "list", value |-> [k \in 1..(n - 2) |-> body[k + 1].v]]
       ELSE [ok |-> FALSE, kind |-> "error", value |-> <<>>]

\* json.dumps of an object, its members in the order of `order`
RECURSIVE Members(_, _)
Members(d, order) ==
    IF order = <<>> THEN <<>>
    ELSE (IF Head(order) \in DOMAIN d THEN <<Member(Head(order), d[Head(order)])>> ELSE <<>>)
         \o Members(d, Tail(order))

json_dumps(d, order) == <<Tok("{")>> \o Members(d, order) \o <<Tok("}")>>

\* json.dumps of an object whose member `key` is a text with a closing brace
\* followed by three backticks in it: the characters a regular expression
\* sees inside that member
RECURSIVE MembersEmbedded(_, _, _)
MembersEmbedded(d, order, key) ==
    IF order = <<>> THEN <<>>
    ELSE (IF Head(order) \notin DOMAIN d THEN <<>>
          ELSE IF Head(order) = key
          THEN <<[t |-> "member_head", k |-> key, v |-> d[key]], Tok("}"), FENCE_END,
                 Tok("member_tail")>>
          ELSE <<Member(Head(order), d[Head(order)])>>)
         \o MembersEmbedded(d, Tail(order), key)

json_dumps_embedded(d, order, key) ==
    <<Tok("{")>> \o MembersEmbedded(d, order, key) \o <<Tok("}")>>

(***************************************************************************)
(* Resilient generators (report_generator_agents_sdk.py and _v2.py)        *)
(***************************************************************************)
DocFields == <<"reportId", "title", "createdAt", "createdBy", "sections">>
StampFields == {"reportId", "createdAt", "createdBy"}

\* what the backend writes into a report field
UpstreamValue(f) ==
    CASE f = "reportId" -> [prefix |-> "report_", n |-> 99]
      [] f = "createdAt" -> [iso |-> 99, suffix |-> ""]
      [] f = "createdBy" -> "upstream"
      [] f = "title" -> <<"up">>
      [] f = "sections" -> [header |-> <<>>, main |-> <<>>]

UpstreamDocs ==
    {[f \in S \cup {"title", "sections"} |-> UpstreamValue(f)] : S \in SUBSET StampFields}

\* final_output values of the backend: a mapping (<<d>>), None, or a text
Fenced(ws, body) == <<PROSE, FENCE_JSON, ws>> \o body \o <<ws, FENCE_END, PROSE>>

OddTexts ==
    {<<>>, <<PROSE>>,
     <<Tok("["), Item("x"), Tok("]")>>,
     Fenced(NL, <<Tok("["), Item("x"), Tok("]")>>),
     Fenced(NL, <<Tok("{"), PROSE, Tok("}")>>),
     <<FENCE_JSON, NL, FENCE_END>>}

ReportTexts ==
    UNION {{json_dumps(d, DocFields), Fenced(NL, json_dumps(d, DocFields)),
            Fenced(SP, json_dumps(d, DocFields))} : d \in UpstreamDocs}

FinalOutputs ==
    {[kind |-> "dict", value |-> <<d>>] : d \in UpstreamDocs}
        \cup {[kind |-> "none", value |-> <<>>]}
        \cup {[kind |-> "str", value |-> t] : t \in ReportTexts \cup OddTexts}

BackendOutcomes == {[kind |-> "raise", value |-> <<>>]} \cup FinalOutputs

\* "if f not in report_json: report_json[f] = ..." for the three stamp fields
Synthesize(d, ts, t) ==
    [f \in DOMAIN d \cup StampFields |->
        IF f \in DOMAIN d THEN d[f]
        ELSE CASE f = "reportId" -> ReportId(ts)
               [] f = "createdAt" -> IsoZ(t)
               [] f = "createdBy" -> "agent_generated"]

ErrorSection ==
    MainSection(1, "TextField", "error", "",
        Content("TEXT", "TextField", <<"error while generating">>, NoProps))

\* the error path returning the keyword-driven assembler's document
FallbackReport_assembled(text, paths, ts, t) == generate_report(text, paths, ts, t)

\* _generate_fallback_report
FallbackReport(text, paths, ts, t) ==
    [reportId |-> ReportId(ts),
     title |-> REPORT,
     createdAt |-> IsoZ(t),
     createdBy |-> "agent_generated",
     sections |-> [header |-> <<HeaderSection(REPORT)>>,
                   main |-> <<ErrorSection>>]]

Returned(branch, value) == [branch |-> branch, value |-> value]

\* generate_report of report_generator_agents_sdk_v2.py
generate_report_v2(outcome, text, paths, ts, t) ==
    LET fallback == Returned("fallback", FallbackReport(text, paths, ts, t))
        fenced == FencedSearch(outcome.value, {"fence_json"}, "{", "}")
        parsed == IF outcome.kind = "str"
                  THEN IF fenced # <<>> THEN json_loads(fenced[1])
                       ELSE json_loads(outcome.value)
                  ELSE IF outcome.kind = "dict"
                  THEN [ok |-> TRUE, kind |-> "object", value |-> outcome.value[1]]
                  ELSE [ok |-> FALSE, kind |-> "error", value |-> <<>>]
    IN IF outcome.kind = "raise" THEN fallback
       ELSE IF ~parsed.ok \/ parsed.kind # "object" THEN fallback
       ELSE Returned("generated", Synthesize(parsed.value, ts, t))

\* ReportGeneratorAgentSDK.generate_report of report_generator_agents_sdk.py
generate_report_v1(outcome, text, paths, ts, t) ==
    LET failed == Returned("error_object",
                           [error |-> "Failed to parse JSON", content |-> outcome,
                            messages |-> <<>>])
        fenced == FencedSearchV1(outcome.value)
        parsed == IF fenced # <<>> THEN json_loads(fenced[1]) ELSE json_loads(outcome.value)
    IN IF outcome.kind = "raise"
       THEN Returned("fallback", FallbackReport(text, paths, ts, t))
       ELSE IF outcome.kind # "str" THEN failed
       ELSE IF ~parsed.ok \/ parsed.kind # "object" THEN failed
       ELSE Returned("generated", Synthesize(parsed.value, ts, t))

SdkTexts == {EXAMPLE_REQUEST, <<"getsu", "ji">>, KW_KPI \o REPORT}

SdkInit ==
    /\ GwIdle
    /\ PipeIdle
    /\ AgentIdle
    /\ KeyIdle
    /\ user_request \in SdkTexts
    /\ s3_paths \in PathLists({DAILY_PATH, CATEGORY_PATH}, MaxPaths)
    /\ now = 0
    /\ timestamp = NoTimestamp
    /\ docs = <<>>
    /\ sdk_pc = "start"
    /\ sdk_variant = "none"
    /\ sdk_outcome = <<>>
    /\ sdk_return = <<>>

SdkRun(variant, outcome) ==
    /\ sdk_pc = "start"
    /\ sdk_pc' = "done"
    /\ sdk_variant' = variant
    /\ sdk_outcome' = <<outcome>>
    /\ timestamp' = now \div TicksPerMs
    /\ sdk_return' = <<IF variant = "v1"
                       THEN generate_report_v1(outcome, user_request, s3_paths, timestamp', now)
                       ELSE generate_report_v2(outcome, user_request, s3_paths, timestamp', now)>>
    /\ UNCHANGED <<user_request, s3_paths, now, docs>>
    /\ UNCHANGED <<gwVars, pipeVars, agentVars, keyVars>>

GenerateReportV1 == \E outcome \in BackendOutcomes : SdkRun("v1", outcome)

GenerateReportV2 == \E outcome \in BackendOutcomes : SdkRun("v2", outcome)

SdkNext == GenerateReportV1 \/ GenerateReportV2

SpecSdk == SdkInit /\ [][SdkNext]_vars

(***************************************************************************)
(* Assistants generator (report_generator.py): the run and its polling     *)
(***************************************************************************)
MaxToolCalls == 2   \* tool calls the backend asks for in one required action
MaxRounds == 1      \* required actions the backend raises in one run

\* statuses of a run; from a terminal one the backend moves no further
RunStatuses ==
    {"queued", "in_progress", "requires_action", "completed", "failed", "cancelled", "expired"}
TerminalStatuses == {"completed", "failed", "cancelled", "expired"}

\* the statuses the while condition of generate_report leaves the loop on
LoopExitStatuses == {"completed", "failed"}

\* the functions generate_report dispatches a tool call to
KnownFunctions == {"read_s3_data", "analyze_data", "generate_kpi", "validate_s3_path"}

\* a requested tool call: its id, the function it names and its arguments text.
\* The arguments are "bound" (a JSON object holding the function's
\* parameters), "unbound" (a JSON object the parameters do not accept) or
\* "malformed" (no JSON).
ToolCall(id, name, arguments) == [id |-> id, name |-> name, arguments |-> arguments]

RequestedPool ==
    {[name |-> "read_s3_data", arguments |-> "bound"],
     [name |-> "analyze_data", arguments |-> "bound"],
     [name |-> "generate_kpi", arguments |-> "unbound"],
     [name |-> "validate_s3_path", arguments |-> "bound"],
     [name |-> "delete_s3_data", arguments |-> "bound"],
     [name |-> "delete_s3_data", arguments |-> "unbound"],
     [name |-> "read_s3_data", arguments |-> "malformed"]}

\* the required actions of round `round`: call ids are unique within the run
RequiredActions(round) ==
    UNION {{[k \in 1..n |-> ToolCall(10 * round + k, picks[k].name, picks[k].arguments)] :
               picks \in [1..n -> RequestedPool]} : n \in 1..MaxToolCalls}

\* json.loads(tool_call.function.arguments) and the call self.f(**args):
\* TRUE when either raises
ToolRaises(tool_call) ==
    \/ tool_call.arguments = "malformed"
    \/ tool_call.name \in KnownFunctions /\ tool_call.arguments = "unbound"

\* the result of one tool call that does not raise
ToolResult(tool_call) ==
    IF tool_call.name = "validate_s3_path" THEN [kind |-> "exists", function |-> tool_call.name]
    ELSE IF tool_call.name \in KnownFunctions
    THEN [kind |-> "status", function |-> tool_call.name]
    ELSE [kind |-> "error", function |-> tool_call.name]

\* the for loop over tool_calls: one output per call, in order
ToolOutputs(requested) ==
    [k \in 1..Len(requested) |->
        [tool_call_id |-> requested[k].id, output |-> ToolResult(requested[k])]]

\* contents of the assistant message the run leaves in the thread
MessageDoc == [f \in {"title", "sections"} |-> UpstreamValue(f)]

AssistantContents ==
    {json_dumps(MessageDoc, DocFields),
     Fenced(NL, json_dumps(MessageDoc, DocFields)),
     Fenced(SP, json_dumps(MessageDoc, DocFields)),
     Fenced(NL, <<Tok("{"), PROSE, Tok("}")>>),
     <<PROSE>>}

\* the loop over messages.data: the report of the first assistant message,
\* or an error object
ExtractReport(message) ==
    IF message = <<>> THEN Returned("no_response", [error |-> "No response from agent"])
    ELSE LET content == message[1]
             json_match == FencedSearchV1(content)
             result == IF json_match # <<>> THEN json_loads(json_match[1])
                       ELSE json_loads(content)
         IN IF result.ok THEN Returned("report", result.value)
            ELSE Returned("parse_error",
                          [error |-> "Failed to parse JSON", content |-> content])

AgentInit ==
    /\ user_request \in {EXAMPLE_REQUEST}
    /\ s3_paths \in PathLists({DAILY_PATH}, 1)
    /\ now = 0
    /\ timestamp = NoTimestamp
    /\ docs = <<>>
    /\ GwIdle
    /\ SdkIdle
    /\ PipeIdle
    /\ KeyIdle
    /\ agent_pc = "start"
    /\ backend_status = "none"
    /\ backend_calls = <<>>
    /\ backend_message = <<>>
    /\ run_status = "none"
    /\ tool_calls = <<>>
    /\ tool_outputs = <<>>
    /\ observed = 0
    /\ submitted = 0
    /\ agent_return = <<>>
    /\ agent_error = <<>>

AgentOthers == UNCHANGED <<mockVars, gwVars, sdkVars, pipeVars, keyVars>>

\* runs.create: the backend queues the run
RunsCreate ==
    /\ agent_pc = "start"
    /\ agent_pc' = "while"
    /\ backend_status' = "queued"
    /\ run_status' = "queued"
    /\ UNCHANGED <<backend_calls, backend_message, tool_calls, tool_outputs, observed,
                   submitted, agent_return, agent_error>>
    /\ AgentOthers

\* the backend picks the run up
BackendStart ==
    /\ backend_status = "queued"
    /\ backend_status' = "in_progress"
    /\ UNCHANGED <<agent_pc, backend_calls, backend_message, run_status, tool_calls,
                   tool_outputs, observed, submitted, agent_return, agent_error>>
    /\ AgentOthers

\* the backend asks for tool calls
BackendRequires ==
    /\ backend_status = "in_progress"
    /\ observed < MaxRounds
    /\ backend_status' = "requires_action"
    /\ backend_calls' \in RequiredActions(observed + 1)
    /\ UNCHANGED <<agent_pc, backend_message, run_status, tool_calls, tool_outputs,
                   observed, submitted, agent_return, agent_error>>
    /\ AgentOthers

\* the backend ends the run: completed with or without an assistant message,
\* or failed, cancelled or expired
BackendEnds ==
    /\ backend_status \in RunStatuses \ TerminalStatuses
    /\ \E status \in TerminalStatuses :
        /\ backend_status' = status
        /\ \/ status = "completed" /\ backend_message' \in {<<c>> : c \in AssistantContents}
           \/ backend_message' = <<>>
    /\ backend_calls' = <<>>
    /\ UNCHANGED <<agent_pc, run_status, tool_calls, tool_outputs, observed, submitted,
                   agent_return, agent_error>>
    /\ AgentOthers

\* the statuses on which generate_report runs the tool calls
SubmitStatuses == {"requires_action"}

\* the while condition holds: the loop body is entered
WhileTest ==
    /\ agent_pc = "while"
    /\ run_status \notin LoopExitStatuses
    /\ agent_pc' = "retrieve"
    /\ UNCHANGED <<backend_status, backend_calls, backend_message, run_status, tool_calls,
                   tool_outputs, observed, submitted, agent_return, agent_error>>
    /\ AgentOthers

\* runs.retrieve and the test for requires_action
Retrieve ==
    /\ agent_pc = "retrieve"
    /\ run_status' = backend_status
    /\ IF backend_status \in SubmitStatuses
       THEN /\ agent_pc' = "tools"
            /\ tool_calls' = backend_calls
            /\ observed' = observed + 1
       ELSE /\ agent_pc' = "while"
            /\ UNCHANGED <<tool_calls, observed>>
    /\ UNCHANGED <<backend_status, backend_calls, backend_message, tool_outputs, submitted,
                   agent_return, agent_error>>
    /\ AgentOthers

\* the rest of a pass that found requires_action: the tool calls run and
\* their outputs are submitted; an exception of a tool call, or of the
\* backend refusing the batch, leaves generate_report
SubmitToolOutputs ==
    /\ agent_pc = "tools"
    /\ IF \E k \in 1..Len(tool_calls) : ToolRaises(tool_calls[k])
       THEN /\ agent_pc' = "raised"
            /\ agent_error' = <<"tool_call">>
            /\ UNCHANGED <<backend_status, backend_calls, tool_outputs, submitted>>
       ELSE /\ tool_outputs' = <<[status |-> run_status, outputs |-> ToolOutputs(tool_calls)]>>
            /\ submitted' = submitted + 1
            /\ IF backend_status = "requires_action"
               THEN /\ backend_status' = "queued"
                    /\ backend_calls' = <<>>
                    /\ agent_pc' = "while"
                    /\ UNCHANGED agent_error
               ELSE /\ agent_pc' = "raised"
                    /\ agent_error' = <<"submit_tool_outputs">>
                    /\ UNCHANGED <<backend_status, backend_calls>>
    /\ UNCHANGED <<backend_message, run_status, tool_calls, observed, agent_return>>
    /\ AgentOthers

\* the loop is left: messages.list and the extraction of the report
ListMessages ==
    /\ agent_pc = "while"
    /\ run_status \in LoopExitStatuses
    /\ agent_pc' = "returned"
    /\ agent_return' = <<ExtractReport(backend_message)>>
    /\ UNCHANGED <<backend_status, backend_calls, backend_message, run_status, tool_calls,
                   tool_outputs, observed, submitted, agent_error>>
    /\ AgentOthers

AgentStep == RunsCreate \/ WhileTest \/ Retrieve \/ SubmitToolOutputs \/ ListMessages

AgentNext ==
    \/ RunsCreate
    \/ BackendStart
    \/ BackendRequires
    \/ BackendEnds
    \/ WhileTest
    \/ Retrieve
    \/ SubmitToolOutputs
    \/ ListMessages

SpecAgent == AgentInit /\ [][AgentNext]_vars

\* generate_report runs on: a thread that can take a step takes one
SpecAgentFair == SpecAgent /\ WF_vars(AgentStep)

(***************************************************************************)
(* Credential lookup (secrets_manager_utils.py)                            *)
(***************************************************************************)
\* Python values of the lookup: None, a text (a sequence of letters or
\* longer pieces; "" is <<>>), a number.  bool(v) is Truthy(v).
None == [t |-> "None", s |-> <<>>]
Text(s) == [t |-> "str", s |-> s]
Number(s) == [t |-> "int", s |-> s]
Truthy(v) == (v.t = "str" /\ v.s # <<>>) \/ (v.t = "int" /\ v.s # <<"0">>)

\* os.getenv(name, default): a variable is <<>> when unset, <<text>> when set
getenv(environ, name, default) == IF environ[name] = <<>> THEN default ELSE environ[name][1]

DEFAULT_SECRET_ARN == <<"arn:default">>

\* a SecretString: its text, how json.loads reads it, and for an object its
\* api_key member (<<>> when it has none)
SecretString(raw, json, api_key) == [raw |-> raw, json |-> json, api_key |-> api_key]

SecretStrings ==
    {SecretString(<<"sk-plain">>, "error", <<>>),
     SecretString(<<>>, "error", <<>>),
     SecretString(<<"{", "api_key", "sk-json", "}">>, "object", <<Text(<<"sk-json">>)>>),
     SecretString(<<"{", "api_key", "}">>, "object", <<Text(<<>>)>>),
     SecretString(<<"{", "api_key", "null", "}">>, "object", <<None>>),
     SecretString(<<"{", "api_key", "7", "}">>, "object", <<Number(<<"7">>)>>),
     SecretString(<<"{", "key", "sk-other", "}">>, "object", <<>>),
     SecretString(<<"7">>, "number", <<>>)}

\* what client.get_secret_value does: it raises, or it answers with or
\* without a SecretString
SecretResponses ==
    {[kind |-> "raise", secret |-> <<>>], [kind |-> "binary", secret |-> <<>>]}
        \cup {[kind |-> "string", secret |-> <<s>>] : s \in SecretStrings}

\* get_secret: every exception ends in the outer except, which returns None
get_secret(answer) ==
    IF answer.kind = "raise" THEN None
    ELSE IF answer.kind = "binary" THEN None
    ELSE LET secret == answer.secret[1]
         IN IF secret.json = "error" THEN Text(secret.raw)
            ELSE IF secret.json = "object"
            THEN IF secret.api_key # <<>> THEN secret.api_key[1] ELSE Text(secret.raw)
            ELSE None   \* secret_dict.get on a value that is no dict

KeyResult(kind, value, asked) == [kind |-> kind, value |-> value, asked |-> asked]

\* a lookup that prefers the environment value to the secret
get_openai_api_key_envfirst(environ, answer) ==
    LET api_key == environ["OPENAI_API_KEY"]
        use == Lower(getenv(environ, "USE_SECRETS_MANAGER", STR_FALSE)) = STR_TRUE
        secret_arn == getenv(environ, "OPENAI_API_KEY_SECRET_ARN", DEFAULT_SECRET_ARN)
        asked == IF use THEN <<secret_arn>> ELSE <<>>
        secret_key == get_secret(answer)
    IN IF api_key # <<>> /\ api_key[1] # <<>>
       THEN KeyResult("return", Text(api_key[1]), asked)
       ELSE IF use /\ Truthy(secret_key) THEN KeyResult("return", secret_key, asked)
       ELSE KeyResult("ValueError", None, asked)

\* get_openai_api_key; asked is the SecretId get_secret was called with
get_openai_api_key(environ, answer) ==
    LET api_key == environ["OPENAI_API_KEY"]
        use == Lower(getenv(environ, "USE_SECRETS_MANAGER", STR_FALSE)) = STR_TRUE
        secret_arn == getenv(environ, "OPENAI_API_KEY_SECRET_ARN", DEFAULT_SECRET_ARN)
        asked == IF use THEN <<secret_arn>> ELSE <<>>
        secret_key == get_secret(answer)
    IN IF use /\ Truthy(secret_key) THEN KeyResult("return", secret_key, asked)
       ELSE IF api_key # <<>> /\ api_key[1] # <<>>
       THEN KeyResult("return", Text(api_key[1]), asked)
       ELSE KeyResult("ValueError", None, asked)

\* values the three environment variables are given
ApiKeyValues == {<<>>, <<<<>>>>, <<<<"sk-env">>>>}
UseValues ==
    {<<>>, <<<<>>>>, <<STR_TRUE>>, <<<<"T", "R", "U", "E">>>>, <<<<"T", "r", "u", "e">>>>,
     <<STR_FALSE>>}
SecretArnValues == {<<>>, <<<<"arn:custom">>>>}

KeyInit ==
    /\ user_request \in {EXAMPLE_REQUEST}
    /\ s3_paths = <<>>
    /\ now = 0
    /\ timestamp = NoTimestamp
    /\ docs = <<>>
    /\ GwIdle
    /\ SdkIdle
    /\ PipeIdle
    /\ AgentIdle
    /\ key_environ \in [OPENAI_API_KEY : ApiKeyValues, USE_SECRETS_MANAGER : UseValues,
                        OPENAI_API_KEY_SECRET_ARN : SecretArnValues]
    /\ secret_response \in SecretResponses
    /\ key_pc = "start"
    /\ key_return = <<>>

GetOpenaiApiKey ==
    /\ key_pc = "start"
    /\ key_pc' = "done"
    /\ key_return' = <<get_openai_api_key(key_environ, secret_response)>>
    /\ UNCHANGED <<key_environ, secret_response>>
    /\ UNCHANGED <<mockVars, gwVars, sdkVars, pipeVars, agentVars>>

KeyNext == GetOpenaiApiKey

SpecKey == KeyInit /\ [][KeyNext]_vars

(***************************************************************************)
(* Strict stage pipeline (openai_agents_sdk_sample.py): coercion           *)
(***************************************************************************)
NONE == "None"

Raw(kind, value) == [kind |-> kind, value |-> value]
RAISED == Raw("raise", <<>>)        \* Runner.run raised
NONE_OUTPUT == Raw("none", <<>>)    \* final_output is None
Typed(rec) == Raw("typed", <<rec>>) \* final_output is an instance of the stage's dataclass
Dict(d) == Raw("dict", <<d>>)       \* final_output is a mapping
List(l) == Raw("list", <<[items |-> l]>>)   \* final_output is a list
Str(text) == Raw("str", text)       \* final_output is a text

FencedAs(label, ws, body) == <<PROSE, Tok(label), ws>> \o body \o <<ws, FENCE_END>>

\* "not final_output"
EmptyOutput(raw) ==
    \/ raw.kind = "none"
    \/ raw.kind = "str" /\ raw.value = <<>>
    \/ raw.kind = "dict" /\ DOMAIN raw.value[1] = {}
    \/ raw.kind = "list" /\ raw.value[1].items = <<>>

Ok(v) == [ok |-> TRUE, value |-> <<v>>, cause |-> "", message |-> ""]
Err(cause, message) == [ok |-> FALSE, value |-> <<>>, cause |-> cause, message |-> message]

\* a final_output that is no text, as the value json.loads would have given
AsParsed(raw) ==
    [ok |-> TRUE,
     kind |-> IF raw.kind = "dict" THEN "object" ELSE raw.kind,
     value |-> IF raw.value = <<>> THEN <<>>
               ELSE IF raw.kind = "list" THEN raw.value[1].items
               ELSE raw.value[1]]

\* Cls(**d) of a dataclass with the given required and defaulted fields
Dataclass(cls, required, defaults, parsed) ==
    IF parsed.kind # "object" THEN Err("TypeError", cls)
    ELSE IF ~(required \subseteq DOMAIN parsed.value) THEN Err("TypeError", cls)
    ELSE IF ~(DOMAIN parsed.value \subseteq required \cup DOMAIN defaults)
    THEN Err("TypeError", cls)
    ELSE Ok([f \in required \cup DOMAIN defaults |->
                IF f \in DOMAIN parsed.value THEN parsed.value[f] ELSE defaults[f]])

NoDefaults == [f \in {} |-> NONE]

\* [Cls(**s) for s in sections_data]; iterating a mapping yields its keys
RECURSIVE DataclassEach(_, _, _, _)
DataclassEach(cls, required, defaults, items) ==
    IF items = <<>> THEN Ok(<<>>)
    ELSE LET first == Dataclass(cls, required, defaults,
                                [ok |-> TRUE, kind |-> "object", value |-> Head(items)])
             rest == DataclassEach(cls, required, defaults, Tail(items))
         IN IF ~first.ok THEN first
            ELSE IF ~rest.ok THEN rest
            ELSE Ok(<<first.value[1]>> \o rest.value[1])

\* the text branch shared by the stages: the fenced block when the regular
\* expression finds one, else json.loads of the whole text when `whole`, else
\* the stage's ValueError
ParseText(text, labels, open, close, whole, message) ==
    LET fenced == FencedSearch(text, labels, open, close)
        parsed == IF fenced # <<>> THEN json_loads(fenced[1]) ELSE json_loads(text)
    IN IF fenced = <<>> /\ ~whole THEN Err("ValueError", message)
       ELSE IF ~parsed.ok
       THEN IF fenced = <<>> /\ message # "" THEN Err("ValueError", message)
            ELSE Err("JSONDecodeError", "")
       ELSE Ok(parsed)

\* lines 447-458
CoerceGoal(raw) ==
    IF raw.kind = "raise" THEN Err("BackendError", "")
    ELSE IF raw.kind = "typed" THEN Ok(raw.value[1])
    ELSE LET parsed == IF raw.kind = "str"
                       THEN ParseText(raw.value, {"fence_json"}, "{", "}", TRUE, "")
                       ELSE Ok(AsParsed(raw))
         IN IF ~parsed.ok THEN parsed
            ELSE Dataclass("Goal", {"goal", "period"}, NoDefaults, parsed.value[1])

MdLine(label, value) == [t |-> "md", k |-> label, v |-> value]

MdFirst(text, labels) ==
    LET hits == {i \in 1..Len(text) : text[i].t = "md" /\ text[i].k \in labels}
    IN IF hits = {} THEN <<>> ELSE <<text[Min(hits)].v>>

\* lines 476-488: the labelled-line parse of the Metadata stage
ParseMarkdown(text) ==
    LET id == MdFirst(text, {"ID", "filename"})
        columns == MdFirst(text, {"columns"})
        period == MdFirst(text, {"period"})
        row_count == MdFirst(text, {"rows"})
    IN IF id # <<>> /\ columns # <<>> /\ period # <<>> /\ row_count # <<>>
       THEN Ok([ok |-> TRUE, kind |-> "object",
                value |-> [id |-> id[1], columns |-> columns[1], period |-> period[1],
                           row_count |-> row_count[1]]])
       ELSE Err("ValueError", "CSV analyzer output does not contain valid metadata")

\* lines 465-491
CoerceMetadata(raw) ==
    IF raw.kind = "raise" THEN Err("BackendError", "")
    ELSE IF EmptyOutput(raw) THEN Err("ValueError", "CSV analyzer returned empty output for file")
    ELSE IF raw.kind = "typed" THEN Ok(raw.value[1])
    ELSE LET fenced == FencedSearch(raw.value, {"fence_json"}, "{", "}")
             parsed == IF raw.kind # "str" THEN Ok(AsParsed(raw))
                       ELSE IF fenced = <<>> THEN ParseMarkdown(raw.value)
                       ELSE ParseText(raw.value, {"fence_json"}, "{", "}", TRUE, "")
         IN IF ~parsed.ok THEN parsed
            ELSE Dataclass("CSVMetadata", {"id", "columns", "period", "row_count"},
                           NoDefaults, parsed.value[1])

\* lines 496-509
CoerceRequirement(raw) ==
    IF raw.kind = "raise" THEN Err("BackendError", "")
    ELSE IF EmptyOutput(raw) THEN Err("ValueError", "Requirements analyzer returned empty output")
    ELSE IF raw.kind = "typed" THEN Ok(raw.value[1])
    ELSE LET parsed == IF raw.kind = "str"
                       THEN ParseText(raw.value, {"fence_json"}, "{", "}", FALSE,
                                      "Requirements output does not contain valid JSON")
                       ELSE Ok(AsParsed(raw))
         IN IF ~parsed.ok THEN parsed
            ELSE Dataclass("Requirement", {"metrics", "granularity", "period"},
                           NoDefaults, parsed.value[1])

\* lines 518-531
CoerceGap(raw) ==
    IF raw.kind = "raise" THEN Err("BackendError", "")
    ELSE IF EmptyOutput(raw) THEN Err("ValueError", "Data gap analyzer returned empty output")
    ELSE IF raw.kind = "typed" THEN Ok(raw.value[1])
    ELSE LET parsed == IF raw.kind = "str"
                       THEN ParseText(raw.value, {"fence_json"}, "{", "}", FALSE,
                                      "Data gap output does not contain valid JSON")
                       ELSE Ok(AsParsed(raw))
         IN IF ~parsed.ok THEN parsed
            ELSE Dataclass("DataGap", {"missing_columns", "missing_periods"},
                           [granularity_mismatch |-> NONE], parsed.value[1])

\* lines 537-548
CoerceCompletion(raw) ==
    IF raw.kind = "raise" THEN Err("BackendError", "")
    ELSE IF EmptyOutput(raw) THEN Err("ValueError", "Data completer returned empty output")
    ELSE IF raw.kind # "str" THEN Ok(AsParsed(raw).value)
    ELSE IF FencedSearch(raw.value, {"fence_json"}, "{", "}") = <<>>
    THEN Ok([raw_text |-> raw.value])
    ELSE LET parsed == ParseText(raw.value, {"fence_json"}, "{", "}", TRUE, "")
         IN IF ~parsed.ok THEN parsed ELSE Ok(parsed.value[1].value)

SectionDefaults == [component_type |-> NONE, props |-> [none |-> TRUE]]

\* [ReportSection(**s) for s in data]; iterating a mapping yields its keys,
\* which are no mappings
Sections(parsed) ==
    IF parsed.kind \notin {"list", "object"} THEN Err("TypeError", "ReportSection")
    ELSE IF parsed.kind = "object" /\ DOMAIN parsed.value # {}
    THEN Err("TypeError", "ReportSection")
    ELSE IF parsed.kind = "object" THEN Ok(<<>>)
    ELSE DataclassEach("ReportSection", {"title", "subsections"}, SectionDefaults,
                       parsed.value)

\* lines 558-572
CoercePlan(raw) ==
    IF raw.kind = "raise" THEN Err("BackendError", "")
    ELSE IF EmptyOutput(raw) THEN Err("ValueError", "Report planner returned empty output")
    ELSE LET parsed == IF raw.kind = "str"
                       THEN ParseText(raw.value, {"fence_json", "fence_python"}, "[", "]", TRUE,
                                      "Plan result output does not contain valid JSON")
                       ELSE Ok(AsParsed(raw))
         IN IF ~parsed.ok THEN parsed ELSE Sections(parsed.value[1])

\* lines 577-591
CoerceDesign(raw) ==
    IF raw.kind = "raise" THEN Err("BackendError", "")
    ELSE IF EmptyOutput(raw) THEN Err("ValueError", "Component designer returned empty output")
    ELSE LET parsed == IF raw.kind = "str"
                       THEN ParseText(raw.value, {"fence_json"}, "{", "}", TRUE,
                                      "Design result output does not contain valid JSON")
                       ELSE Ok(AsParsed(raw))
         IN IF ~parsed.ok THEN parsed
            ELSE IF parsed.value[1].kind # "object" THEN Err("TypeError", "sections")
            ELSE IF "sections" \notin DOMAIN parsed.value[1].value THEN Err("KeyError", "sections")
            ELSE Sections([ok |-> TRUE, kind |-> "list",
                           value |-> parsed.value[1].value.sections])

\* lines 596-608
CoerceGenerate(raw) ==
    IF raw.kind = "raise" THEN Err("BackendError", "")
    ELSE IF EmptyOutput(raw) THEN Err("ValueError", "JSON generator returned empty output")
    ELSE IF raw.kind = "str"
    THEN LET parsed == ParseText(raw.value, {"fence_json"}, "{", "}", TRUE,
                                 "JSON generator output does not contain valid JSON")
         IN IF ~parsed.ok THEN parsed ELSE Ok(parsed.value[1])
    ELSE Ok(AsParsed(raw))

(***************************************************************************)
(* Strict stage pipeline: what the backend may return at each stage        *)
(***************************************************************************)
json_dumps_list(items) ==
    <<Tok("[")>> \o [k \in 1..Len(items) |-> Item(items[k])] \o <<Tok("]")>>

GoalFields == <<"goal", "period">>
GOAL_REC == [goal |-> "analyze sales", period |-> "2024Q1"]

\* a goal whose text quotes the end of a fenced block
GOAL_EMBEDDED == [goal |-> "explain what a brace before a fence means", period |-> "2024Q1"]

GoalOutputs ==
    {RAISED, NONE_OUTPUT, Str(<<>>), Str(<<PROSE>>),
     Typed(GOAL_REC), Dict(GOAL_REC), Dict([goal |-> "analyze sales"]),
     Str(json_dumps(GOAL_REC, GoalFields)),
     Str(Fenced(NL, json_dumps(GOAL_REC, GoalFields))),
     Str(Fenced(NL, json_dumps_embedded(GOAL_EMBEDDED, GoalFields, "goal")))}

MetaFields == <<"id", "columns", "period", "row_count">>
MetaRec(file) ==
    [id |-> file, columns |-> <<"date", "sales">>, period |-> "2024Q1", row_count |-> 3]

MetadataOutputs(file) ==
    {RAISED, NONE_OUTPUT, Str(<<PROSE>>),
     Typed(MetaRec(file)), Dict(MetaRec(file)),
     Str(json_dumps(MetaRec(file), MetaFields)),
     Str(Fenced(NL, json_dumps(MetaRec(file), MetaFields))),
     Str(<<MdLine("filename", file), NL, MdLine("columns", <<"date", "sales">>), NL,
           MdLine("period", "2024Q1"), NL, MdLine("rows", 3)>>)}

ReqFields == <<"metrics", "granularity", "period">>
REQ_REC == [metrics |-> <<"sales">>, granularity |-> "daily", period |-> "2024Q1"]

RequirementOutputs ==
    {RAISED, NONE_OUTPUT, Typed(REQ_REC), Dict(REQ_REC),
     Str(json_dumps(REQ_REC, ReqFields)),
     Str(Fenced(NL, json_dumps(REQ_REC, ReqFields)))}

GapFields == <<"missing_columns", "missing_periods", "granularity_mismatch">>
GapRecs ==
    [missing_columns : {<<>>, <<"profit">>},
     missing_periods : {<<>>, <<"2024-03">>},
     granularity_mismatch : {NONE}]
        \cup {[missing_columns |-> <<>>, missing_periods |-> <<>>,
               granularity_mismatch |-> "daily data, monthly report"]}

GapOutputs ==
    {RAISED, NONE_OUTPUT,
     Dict([missing_columns |-> <<"profit">>, missing_periods |-> <<>>]),
     Dict([missing_columns |-> <<"profit">>])}
        \cup {Typed(g) : g \in GapRecs}
        \cup {Str(Fenced(NL, json_dumps(g, GapFields))) : g \in GapRecs}
        \cup {Str(json_dumps(g, GapFields)) : g \in GapRecs}

COMPLETION_REC == [filled_columns |-> <<"profit">>]

CompletionOutputs ==
    {RAISED, NONE_OUTPUT, Str(<<PROSE>>), Dict(COMPLETION_REC),
     Str(Fenced(NL, json_dumps(COMPLETION_REC, <<"filled_columns">>)))}

PLAN_SECTIONS == <<[title |-> "sales trend", subsections |-> <<>>]>>

PlanOutputs ==
    {RAISED, NONE_OUTPUT, Str(<<PROSE>>),
     List(PLAN_SECTIONS),
     Str(json_dumps_list(PLAN_SECTIONS)),
     Str(FencedAs("fence_json", NL, json_dumps_list(PLAN_SECTIONS))),
     Str(FencedAs("fence_python", NL, json_dumps_list(PLAN_SECTIONS))),
     Str(json_dumps(GOAL_REC, GoalFields))}

DESIGNED_SECTIONS ==
    <<[title |-> "sales trend", subsections |-> <<>>, component_type |-> "line_chart",
       props |-> [x_axis |-> "date"]]>>

DesignRecs == {[sections |-> DESIGNED_SECTIONS], [sections |-> PLAN_SECTIONS]}

DesignOutputs ==
    {RAISED, NONE_OUTPUT, Str(<<PROSE>>), Dict(GOAL_REC), List(DESIGNED_SECTIONS)}
        \cup {Dict(d) : d \in DesignRecs}
        \cup {Str(json_dumps(d, <<"sections">>)) : d \in DesignRecs}
        \cup {Str(Fenced(NL, json_dumps(d, <<"sections">>))) : d \in DesignRecs}

GenDocs == {d \in UpstreamDocs : Cardinality(DOMAIN d \cap StampFields) \in {0, 1, 3}}

GenerateOutputs ==
    {RAISED, NONE_OUTPUT, Str(<<PROSE>>)}
        \cup {Dict(d) : d \in GenDocs}
        \cup {Str(json_dumps(d, DocFields)) : d \in GenDocs}
        \cup {Str(Fenced(NL, json_dumps(d, DocFields))) : d \in GenDocs}

ValidateOutputs ==
    {RAISED, NONE_OUTPUT, Str(<<PROSE>>),
     Dict([is_valid |-> TRUE]),
     Dict([is_valid |-> FALSE, has_issues |-> TRUE])}

(***************************************************************************)
(* Strict stage pipeline: process_csv_report                               *)
(***************************************************************************)
\* a granularity note asking for completion as well
NeedsCompletion_mismatch(gap) ==
    gap.missing_columns # <<>> \/ gap.missing_periods # <<>> \/ gap.granularity_mismatch # NONE

\* "if gaps.missing_columns or gaps.missing_periods"
NeedsCompletion(gap) == gap.missing_columns # <<>> \/ gap.missing_periods # <<>>

\* the Metadata loop left out
Successor_nometadata(stage, idx, n, gap) ==
    CASE stage = "GOAL" -> "REQUIREMENT"
      [] stage = "METADATA" -> IF idx < n THEN "METADATA" ELSE "REQUIREMENT"
      [] stage = "REQUIREMENT" -> "GAP"
      [] stage = "GAP" -> IF NeedsCompletion(gap[1]) THEN "COMPLETION" ELSE "PLAN"
      [] stage = "COMPLETION" -> "PLAN"
      [] stage = "PLAN" -> "DESIGN"
      [] stage = "DESIGN" -> "GENERATE"
      [] stage = "GENERATE" -> "VALIDATE"
      [] stage = "VALIDATE" -> "DONE"

\* the statement that follows a stage that has succeeded; idx is the position
\* in csv_files the stage worked on, n the number of files
Successor(stage, idx, n, gap) ==
    CASE stage = "GOAL" -> IF n = 0 THEN "REQUIREMENT" ELSE "METADATA"
      [] stage = "METADATA" -> IF idx < n THEN "METADATA" ELSE "REQUIREMENT"
      [] stage = "REQUIREMENT" -> "GAP"
      [] stage = "GAP" -> IF NeedsCompletion(gap[1]) THEN "COMPLETION" ELSE "PLAN"
      [] stage = "COMPLETION" -> "PLAN"
      [] stage = "PLAN" -> "DESIGN"
      [] stage = "DESIGN" -> "GENERATE"
      [] stage = "GENERATE" -> "VALIDATE"
      [] stage = "VALIDATE" -> "DONE"

\* a stage that has failed entered again
StageRuns_retry(stage, payload, raw, result, gap) ==
    /\ pipe_pc = stage
    /\ calls' = Append(calls, [stage |-> stage, payload |-> <<payload>>, ok |-> result.ok])
    /\ stage_raw' = <<raw>>
    /\ IF result.ok
       THEN /\ pipe_pc' = Successor(stage, file_idx, Len(csv_files), gap)
            /\ pipe_error' = pipe_error
       ELSE /\ pipe_pc' = stage
            /\ pipe_error' = <<[stage |-> stage, cause |-> result.cause,
                                message |-> result.message]>>
    /\ UNCHANGED <<mockVars, gwVars, sdkVars, agentVars, keyVars, csv_files>>

\* one "await Runner.run(...)" and the coercion of its output: the call is
\* logged, and an exception ends the run
StageRuns(stage, payload, raw, result, gap) ==
    /\ pipe_pc = stage
    /\ calls' = Append(calls, [stage |-> stage, payload |-> <<payload>>, ok |-> result.ok])
    /\ stage_raw' = <<raw>>
    /\ IF result.ok
       THEN /\ pipe_pc' = Successor(stage, file_idx, Len(csv_files), gap)
            /\ pipe_error' = pipe_error
       ELSE /\ pipe_pc' = "FAILED"
            /\ pipe_error' = <<[stage |-> stage, cause |-> result.cause,
                                message |-> result.message]>>
    /\ UNCHANGED <<mockVars, gwVars, sdkVars, agentVars, keyVars, csv_files>>

Kept(var, result) == IF result.ok THEN result.value ELSE var

\* the stage an exception of process_csv_report names: the ValueError texts of
\* the stages, and the class name a dataclass constructor's TypeError carries;
\* "none" for json.loads errors, subscript errors and ReportSection, which two
\* stages construct
NamedStage(err) ==
    CASE err.message \in {"CSV analyzer returned empty output for file",
                          "CSV analyzer output does not contain valid metadata",
                          "CSVMetadata"} -> "METADATA"
      [] err.message \in {"Requirements analyzer returned empty output",
                          "Requirements output does not contain valid JSON",
                          "Requirement"} -> "REQUIREMENT"
      [] err.message \in {"Data gap analyzer returned empty output",
                          "Data gap output does not contain valid JSON",
                          "DataGap"} -> "GAP"
      [] err.message = "Data completer returned empty output" -> "COMPLETION"
      [] err.message \in {"Report planner returned empty output",
                          "Plan result output does not contain valid JSON"} -> "PLAN"
      [] err.message \in {"Component designer returned empty output",
                          "Design result output does not contain valid JSON"} -> "DESIGN"
      [] err.message \in {"JSON generator returned empty output",
                          "JSON generator output does not contain valid JSON"} -> "GENERATE"
      [] err.message = "Goal" -> "GOAL"
      [] OTHER -> "none"

\* the "... returned empty output" ValueError of a stage
EmptyMessage(stage) ==
    CASE stage = "METADATA" -> "CSV analyzer returned empty output for file"
      [] stage = "REQUIREMENT" -> "Requirements analyzer returned empty output"
      [] stage = "GAP" -> "Data gap analyzer returned empty output"
      [] stage = "COMPLETION" -> "Data completer returned empty output"
      [] stage = "PLAN" -> "Report planner returned empty output"
      [] stage = "DESIGN" -> "Component designer returned empty output"
      [] stage = "GENERATE" -> "JSON generator returned empty output"
      [] OTHER -> "none"

PipeInit ==
    /\ GwIdle
    /\ SdkIdle
    /\ AgentIdle
    /\ KeyIdle
    /\ user_request \in {EXAMPLE_REQUEST}
    /\ s3_paths = <<>>
    /\ now = 0
    /\ timestamp = NoTimestamp
    /\ docs = <<>>
    /\ csv_files \in UNION {[1..n -> {"q1.csv", "q2.csv"}] : n \in 0..MaxFiles}
    /\ pipe_pc = "GOAL"
    /\ file_idx = 1
    /\ calls = <<>>
    /\ stage_raw = <<>>
    /\ goal = <<>>
    /\ csv_metadata_results = <<>>
    /\ requirements = <<>>
    /\ gaps = <<>>
    /\ completer_dict = <<>>
    /\ sections = <<>>
    /\ final_json = <<>>
    /\ json_result = <<>>
    /\ pipe_error = <<>>
    /\ pipe_return = <<>>

\* Step 1, lines 443-458
GoalStage ==
    \E raw \in GoalOutputs :
        LET result == CoerceGoal(raw)
        IN /\ StageRuns("GOAL", user_request, raw, result, gaps)
           /\ goal' = Kept(goal, result)
           /\ UNCHANGED <<file_idx, csv_metadata_results, requirements, gaps, completer_dict,
                          sections, final_json, json_result, pipe_return>>

\* the newest metadata put in front of the list
MetadataStage_prepend ==
    /\ pipe_pc = "METADATA"
    /\ \E raw \in MetadataOutputs(csv_files[file_idx]) :
        LET result == CoerceMetadata(raw)
        IN /\ StageRuns("METADATA", csv_files[file_idx], raw, result, gaps)
           /\ csv_metadata_results' = IF result.ok
                                      THEN <<result.value[1]>> \o csv_metadata_results
                                      ELSE csv_metadata_results
           /\ file_idx' = IF result.ok THEN file_idx + 1 ELSE file_idx
           /\ UNCHANGED <<goal, requirements, gaps, completer_dict, sections, final_json,
                          json_result, pipe_return>>

\* Step 2, lines 460-491: one pass of the loop over csv_files
MetadataStage ==
    /\ pipe_pc = "METADATA"
    /\ \E raw \in MetadataOutputs(csv_files[file_idx]) :
        LET result == CoerceMetadata(raw)
        IN /\ StageRuns("METADATA", csv_files[file_idx], raw, result, gaps)
           /\ csv_metadata_results' = IF result.ok
                                      THEN Append(csv_metadata_results, result.value[1])
                                      ELSE csv_metadata_results
           /\ file_idx' = IF result.ok THEN file_idx + 1 ELSE file_idx
           /\ UNCHANGED <<goal, requirements, gaps, completer_dict, sections, final_json,
                          json_result, pipe_return>>

\* Step 3, lines 493-509
RequirementStage ==
    \E raw \in RequirementOutputs :
        LET result == CoerceRequirement(raw)
        IN /\ StageRuns("REQUIREMENT", user_request, raw, result, gaps)
           /\ requirements' = Kept(requirements, result)
           /\ UNCHANGED <<file_idx, goal, csv_metadata_results, gaps, completer_dict, sections,
                          final_json, json_result, pipe_return>>

\* Step 4, lines 511-531
GapStage ==
    \E raw \in GapOutputs :
        LET result == CoerceGap(raw)
            payload == [goal |-> goal[1], csv_metadata |-> csv_metadata_results,
                        requirements |-> requirements[1]]
        IN /\ StageRuns("GAP", payload, raw, result, result.value)
           /\ gaps' = Kept(gaps, result)
           /\ UNCHANGED <<file_idx, goal, csv_metadata_results, requirements, completer_dict,
                          sections, final_json, json_result, pipe_return>>

\* the completed columns fed back into the requirements
CompletionStage_feedback ==
    \E raw \in CompletionOutputs :
        LET result == CoerceCompletion(raw)
        IN /\ StageRuns("COMPLETION", gaps[1], raw, result, gaps)
           /\ completer_dict' = Kept(completer_dict, result)
           /\ requirements' = IF result.ok
                               THEN <<[requirements[1] EXCEPT !.metrics = Append(@, "profit")]>>
                               ELSE requirements
           /\ UNCHANGED <<file_idx, goal, csv_metadata_results, gaps, sections,
                          final_json, json_result, pipe_return>>

\* Step 5, lines 533-549
CompletionStage ==
    \E raw \in CompletionOutputs :
        LET result == CoerceCompletion(raw)
        IN /\ StageRuns("COMPLETION", gaps[1], raw, result, gaps)
           /\ completer_dict' = Kept(completer_dict, result)
           /\ UNCHANGED <<file_idx, goal, csv_metadata_results, requirements, gaps, sections,
                          final_json, json_result, pipe_return>>

\* Steps 6-7, lines 551-572
PlanStage ==
    \E raw \in PlanOutputs :
        LET result == CoercePlan(raw)
            payload == [goal |-> goal[1], requirements |-> requirements[1],
                        metadata |-> csv_metadata_results]
        IN /\ StageRuns("PLAN", payload, raw, result, gaps)
           /\ sections' = IF result.ok THEN result.value[1] ELSE sections
           /\ UNCHANGED <<file_idx, goal, csv_metadata_results, requirements, gaps,
                          completer_dict, final_json, json_result, pipe_return>>

\* Steps 8-9, lines 574-591
DesignStage ==
    \E raw \in DesignOutputs :
        LET result == CoerceDesign(raw)
        IN /\ StageRuns("DESIGN", [sections |-> sections], raw, result, gaps)
           /\ sections' = IF result.ok THEN result.value[1] ELSE sections
           /\ UNCHANGED <<file_idx, goal, csv_metadata_results, requirements, gaps,
                          completer_dict, final_json, json_result, pipe_return>>

\* Steps 10-11, lines 593-608
GenerateStage ==
    \E raw \in GenerateOutputs :
        LET result == CoerceGenerate(raw)
        IN /\ StageRuns("GENERATE", sections, raw, result, gaps)
           /\ final_json' = Kept(final_json, result)
           /\ json_result' = IF raw.kind = "raise" THEN json_result ELSE <<raw>>
           /\ UNCHANGED <<file_idx, goal, csv_metadata_results, requirements, gaps,
                          completer_dict, sections, pipe_return>>

\* a verdict reporting issues ending the run
ValidateStage_blocking ==
    \E raw \in ValidateOutputs :
        LET result == IF raw.kind = "raise" THEN Err("BackendError", "")
                      ELSE IF raw.kind = "dict" /\ "has_issues" \in DOMAIN raw.value[1]
                      THEN Err("ValueError", "validation issues")
                      ELSE Ok(raw)
        IN /\ StageRuns("VALIDATE", json_result[1], raw, result, gaps)
           /\ pipe_return' = IF result.ok THEN json_result ELSE pipe_return
           /\ UNCHANGED <<file_idx, goal, csv_metadata_results, requirements, gaps,
                          completer_dict, sections, final_json, json_result>>

\* Step 12, lines 610-616: the verdict is read and dropped, and the
\* generator's final_output is returned
ValidateStage ==
    \E raw \in ValidateOutputs :
        LET result == IF raw.kind = "raise" THEN Err("BackendError", "") ELSE Ok(raw)
        IN /\ StageRuns("VALIDATE", json_result[1], raw, result, gaps)
           /\ pipe_return' = IF result.ok THEN json_result ELSE pipe_return
           /\ UNCHANGED <<file_idx, goal, csv_metadata_results, requirements, gaps,
                          completer_dict, sections, final_json, json_result>>

PipeNext ==
    \/ GoalStage
    \/ MetadataStage
    \/ RequirementStage
    \/ GapStage
    \/ CompletionStage
    \/ PlanStage
    \/ DesignStage
    \/ GenerateStage
    \/ ValidateStage

SpecPipeline == PipeInit /\ [][PipeNext]_vars

(***************************************************************************)
(* Properties of the mock assembler                                        *)
(***************************************************************************)
NoKeyword(text) == \A kw \in Keywords : ~Contains(text, kw)

Elements(xs) == {xs[k] : k \in 1..Len(xs)}

MainOf(i) == docs[i].doc.sections.main

\* p is the first path of the list containing the marker, or, when no path
\* contains it, the path at position fallback.
IsFirstWithOrAt(paths, marker, fallback, p) ==
    \/ \E n \in 1..Len(paths) :
          /\ p = paths[n]
          /\ Contains(paths[n], <<marker>>)
          /\ \A m \in 1..(n - 1) : ~Contains(paths[m], <<marker>>)
    \/ /\ \A n \in 1..Len(paths) : ~Contains(paths[n], <<marker>>)
       /\ p = paths[fallback]

\* C1: a request text containing none of the eight keywords is analysed to
\* exactly the components Card and DataTable: never BarChart, never empty.
C1_DefaultComponents ==
    \A i \in 1..Len(docs) :
        NoKeyword(user_request) =>
            LET c == docs[i].analysis.components
            IN /\ Elements(c) = {"Card", "DataTable"}
               /\ Len(c) = 2

C1_Witness ==
    /\ Len(docs) > 0
    /\ user_request # <<>>
    /\ NoKeyword(user_request)

\* C2: with at least one path and DataTable selected, the DataTable section's
\* value is the first path containing "daily", or the first path of the list
\* when none does.
C2_TablePath ==
    \A i \in 1..Len(docs) :
        (Len(s3_paths) >= 1 /\ InList("DataTable", docs[i].analysis.components)) =>
            /\ \E k \in 1..Len(MainOf(i)) : MainOf(i)[k].component = "DataTable"
            /\ \A k \in 1..Len(MainOf(i)) :
                  MainOf(i)[k].component = "DataTable" =>
                      IsFirstWithOrAt(s3_paths, "daily", 1, MainOf(i)[k].contents[1].value)

C2_Witness ==
    /\ Len(docs) > 0
    /\ Len(s3_paths) = 2
    /\ ~Contains(s3_paths[1], <<"daily">>)
    /\ Contains(s3_paths[2], <<"daily">>)
    /\ \E k \in 1..Len(MainOf(1)) :
          /\ MainOf(1)[k].component = "DataTable"
          /\ MainOf(1)[k].contents[1].value = s3_paths[2]

\* C3: with at least two paths and BarChart selected, the BarChart section's
\* value is the first path containing "category", or the second path of the
\* list when none does.
C3_ChartPath ==
    \A i \in 1..Len(docs) :
        (Len(s3_paths) >= 2 /\ InList("BarChart", docs[i].analysis.components)) =>
            /\ \E k \in 1..Len(MainOf(i)) : MainOf(i)[k].component = "BarChart"
            /\ \A k \in 1..Len(MainOf(i)) :
                  MainOf(i)[k].component = "BarChart" =>
                      IsFirstWithOrAt(s3_paths, "category", 2, MainOf(i)[k].contents[1].value)

C3_Witness ==
    /\ Len(docs) > 0
    /\ Len(s3_paths) = 2
    /\ \A n \in 1..2 : ~Contains(s3_paths[n], <<"category">>)
    /\ s3_paths[1] # s3_paths[2]
    /\ \E k \in 1..Len(MainOf(1)) :
          /\ MainOf(1)[k].component = "BarChart"
          /\ MainOf(1)[k].contents[1].value = s3_paths[2]

\* C4: two documents assembled from the same request text and path list have
\* identical header and main lists, title and creator; only reportId and
\* createdAt can differ, reportId being a function of the generator's
\* timestamp and createdAt of the clock reading, so that under one fixed
\* timestamp the two documents are equal.
C4_Idempotent ==
    \A i, j \in 1..Len(docs) :
        /\ docs[i].doc.sections = docs[j].doc.sections
        /\ docs[i].doc.title = docs[j].doc.title
        /\ docs[i].doc.createdBy = docs[j].doc.createdBy
        /\ docs[i].ts = docs[j].ts => docs[i].doc.reportId = docs[j].doc.reportId
        /\ docs[i].at = docs[j].at => docs[i].doc.createdAt = docs[j].doc.createdAt
        /\ (docs[i].ts = docs[j].ts /\ docs[i].at = docs[j].at) => docs[i].doc = docs[j].doc

C4_Witness ==
    /\ Len(docs) = 2
    /\ docs[1].at # docs[2].at
    /\ docs[1].ts # docs[2].ts
    /\ Len(MainOf(2)) >= 3
    /\ docs[1].doc # docs[2].doc

HasSalesKeyword(text) == Contains(text, KW_URIAGE) \/ Contains(text, KW_SUII)

HasCategoryKeyword(text) ==
    Contains(text, KW_CATEGORY) \/ Contains(text, KW_HIKAKU) \/ Contains(text, KW_BETSU)

HasCardKeyword(text) ==
    Contains(text, KW_KPI) \/ Contains(text, KW_SHIHYO) \/ Contains(text, KW_SUMMARY)

\* REPORT occurs in the text with at least one character before it
ReportPreceded(text) ==
    \E j \in 2..(Len(text) - Len(REPORT) + 1) : SubSeq(text, j, j + Len(REPORT) - 1) = REPORT

EndsWith(text, suffix) ==
    /\ Len(text) >= Len(suffix)
    /\ SubSeq(text, Len(text) - Len(suffix) + 1, Len(text)) = suffix

ScenarioCase ==
    /\ Len(docs) > 0
    /\ HasSalesKeyword(user_request)
    /\ HasCategoryKeyword(user_request)
    /\ ReportPreceded(user_request)
    /\ Len(s3_paths) = 2
    /\ Contains(s3_paths[1], <<"daily">>)
    /\ Contains(s3_paths[2], <<"category">>)

ScenarioDocument ==
    /\ EndsWith(docs[1].doc.title, REPORT)
    /\ docs[1].doc.sections.header[1].contents[1].value = docs[1].doc.title
    /\ \E k \in 1..Len(MainOf(1)) :
          /\ MainOf(1)[k].component = "DataTable"
          /\ MainOf(1)[k].contents[1].value = s3_paths[1]
    /\ \E k \in 1..Len(MainOf(1)) :
          /\ MainOf(1)[k].component = "BarChart"
          /\ MainOf(1)[k].contents[1].value = s3_paths[2]
          /\ MainOf(1)[k].contents[1].props
                = [xField |-> "category", yFields |-> <<"sales", "profit">>]

\* C15 as stated: for a request with a sales or trend keyword, a category
\* keyword and REPORT preceded by a character, and a path list [p1, p2] with
\* "daily" in p1 and "category" in p2, the document has a header title ending
\* in REPORT, a DataTable section on p1 and a BarChart section on p2 with
\* xField "category" and yFields sales, profit.
C15_AsStated == ScenarioCase => ScenarioDocument

\* C15: the same, for path lists whose first path does not contain "category"
\* as well.
C15_Scenario ==
    (ScenarioCase /\ ~Contains(s3_paths[1], <<"category">>)) => ScenarioDocument

C15_Witness ==
    /\ ScenarioCase
    /\ ~Contains(s3_paths[1], <<"category">>)
    /\ Contains(s3_paths[2], <<"daily">>)
    /\ docs[1].doc.title # REPORT
    /\ ScenarioDocument

ComponentsOf(main) == [k \in 1..Len(main) |-> main[k].component]

\* C16: with an empty path list the document has no DataTable and no BarChart
\* section, whatever the request; and when the request matches a card keyword
\* and no other, its main list is exactly Card, TextField.
C16_EmptyPaths ==
    \A i \in 1..Len(docs) :
        s3_paths = <<>> =>
            /\ \A k \in 1..Len(MainOf(i)) :
                  MainOf(i)[k].component \notin {"DataTable", "BarChart"}
            /\ (/\ HasCardKeyword(user_request)
                /\ ~HasSalesKeyword(user_request)
                /\ ~HasCategoryKeyword(user_request)) =>
                   ComponentsOf(MainOf(i)) = <<"Card", "TextField">>

C16_Witness ==
    /\ Len(docs) > 0
    /\ s3_paths = <<>>
    /\ HasCardKeyword(user_request)
    /\ ~HasSalesKeyword(user_request)
    /\ ~HasCategoryKeyword(user_request)
    /\ ComponentsOf(MainOf(1)) = <<"Card", "TextField">>

\* C21: for a request matching at least one keyword, the components are the
\* matched groups and no other, each once, in the order DataTable, BarChart,
\* Card: DataTable iff a sales or trend keyword occurs, BarChart iff a
\* category, comparison or "by" keyword occurs, Card iff a KPI, indicator or
\* summary keyword occurs, each whatever the other two groups do.
C21_KeywordGroups ==
    \A i \in 1..Len(docs) :
        ~NoKeyword(user_request) =>
            docs[i].analysis.components
                = (IF HasSalesKeyword(user_request) THEN <<"DataTable">> ELSE <<>>)
                  \o (IF HasCategoryKeyword(user_request) THEN <<"BarChart">> ELSE <<>>)
                  \o (IF HasCardKeyword(user_request) THEN <<"Card">> ELSE <<>>)

\* a card keyword written before a category keyword
C21_Witness ==
    /\ Len(docs) > 0
    /\ user_request = KW_SHIHYO \o KW_HIKAKU
    /\ docs[1].analysis.components = <<"BarChart", "Card">>

Selected(i, component) == InList(component, docs[i].analysis.components)

\* C22: the header list is one MainHeader block, and the main list is Card
\* (iff selected), DataTable (iff selected and a path is given), BarChart (iff
\* selected and two paths are given), TextField (always), in that order.
C22_SectionOrder ==
    \A i \in 1..Len(docs) :
        /\ ComponentsOf(docs[i].doc.sections.header) = <<"MainHeader">>
        /\ ComponentsOf(MainOf(i))
              = (IF Selected(i, "Card") THEN <<"Card">> ELSE <<>>)
                \o (IF Selected(i, "DataTable") /\ Len(s3_paths) >= 1
                    THEN <<"DataTable">> ELSE <<>>)
                \o (IF Selected(i, "BarChart") /\ Len(s3_paths) >= 2
                    THEN <<"BarChart">> ELSE <<>>)
                \o <<"TextField">>

C22_Witness ==
    /\ Len(docs) > 0
    /\ ComponentsOf(MainOf(1)) = <<"Card", "DataTable", "BarChart", "TextField">>

\* C23: the ids of the main sections are section_main_1 .. section_main_k in
\* list order, also when a selected component has been skipped for lack of
\* paths, and the header section's id is section_header_1.
C23_SequentialIds ==
    \A i \in 1..Len(docs) :
        /\ docs[i].doc.sections.header[1].id = SectionId("section_header_", 1)
        /\ \A k \in 1..Len(MainOf(i)) : MainOf(i)[k].id = SectionId("section_main_", k)

\* DataTable is selected and skipped, and a section follows
C23_Witness ==
    /\ Len(docs) > 0
    /\ Selected(1, "DataTable")
    /\ s3_paths = <<>>
    /\ Len(MainOf(1)) = 1
    /\ MainOf(1)[1].id = SectionId("section_main_", 1)

ContentsOf(i) ==
    {docs[i].doc.sections.header[1].contents[1]}
        \cup {MainOf(i)[k].contents[1] : k \in 1..Len(MainOf(i))}

\* C27: every content entry with source S3 has a path of the input list as
\* its value, and the content entries of MainHeader, Card and TextField
\* sections have source TEXT.
C27_PathsFromInput ==
    \A i \in 1..Len(docs) :
        \A c \in ContentsOf(i) :
            /\ c.source = "S3" => InList(c.value, s3_paths)
            /\ c.component \in {"MainHeader", "Card", "TextField"} => c.source = "TEXT"
            /\ c.component \in {"DataTable", "BarChart"} => c.source = "S3"

C27_Witness ==
    /\ Len(docs) > 0
    /\ s3_paths = <<PLAIN_PATH, BOTH_PATH>>
    /\ \E c \in ContentsOf(1) : c.source = "S3" /\ c.value = BOTH_PATH
    /\ \E c \in ContentsOf(1) : c.source = "TEXT" /\ c.component = "Card"

(***************************************************************************)
(* Properties of the gateway                                               *)
(***************************************************************************)
Offending(p) == ~StartsWith(p, AllowedPrefix)

HasOffendingPath == \E n \in 1..Len(s3_paths) : Offending(s3_paths[n])

IsFirstOffending(p) ==
    \E n \in 1..Len(s3_paths) :
        /\ p = s3_paths[n]
        /\ Offending(s3_paths[n])
        /\ \A m \in 1..(n - 1) : ~Offending(s3_paths[m])

GeneratorUntouched ==
    /\ timestamp = NoTimestamp
    /\ docs = <<>>
    /\ "MockReportGenerator" \notin Elements(gw_trace)
    /\ "generate_report" \notin Elements(gw_trace)

RejectedWith(status_code) ==
    /\ response # <<>>
    /\ "error" \in DOMAIN response[1]
    /\ response[1].status_code = status_code

\* the request carries a key the gate accepts, or the gate is switched off
GateOpen ==
    \/ Lower(Getenv("API_KEY_REQUIRED", STR_TRUE)) = STR_FALSE
    \/ /\ x_api_key \notin {<<>>, <<"">>}
       /\ x_api_key[1] = Getenv("API_KEY", DEFAULT_API_KEY)

\* C5 as stated: every request with an offending path ends in a client error
\* naming the first offending path, the generator untouched.
C5_AsStated ==
    (gw_pc = "done" /\ HasOffendingPath) =>
        /\ RejectedWith(400)
        /\ IsFirstOffending(response[1].message.path)
        /\ GeneratorUntouched

\* C5: for a request with an offending path the generator is never constructed
\* or invoked; a request that passes the API-key gate ends in the 400 error
\* naming the first offending path, one that fails the gate in the 403 error.
C5_Whitelist ==
    HasOffendingPath =>
        /\ GeneratorUntouched
        /\ (gw_pc = "done" /\ GateOpen) =>
              /\ RejectedWith(400)
              /\ response[1].message.text = "Invalid S3 path: "
              /\ IsFirstOffending(response[1].message.path)
        /\ (gw_pc = "done" /\ ~GateOpen) => RejectedWith(403)

C5_Witness ==
    /\ gw_pc = "done"
    /\ GateOpen
    /\ Len(s3_paths) = 2
    /\ Offending(s3_paths[1]) /\ Offending(s3_paths[2])
    /\ s3_paths[1] # s3_paths[2]
    /\ RejectedWith(400)
    /\ response[1].message.path = s3_paths[1]

KeyAbsentOrDiffers ==
    \/ x_api_key = <<>>
    \/ x_api_key[1] # Getenv("API_KEY", DEFAULT_API_KEY)

StoppedAtGate ==
    /\ gw_pc # "endpoint"
    /\ "validate_paths" \notin Elements(gw_trace)
    /\ GeneratorUntouched
    /\ gw_pc = "done" => RejectedWith(403)

PassedGate == gw_pc = "done" => "validate_paths" \in Elements(gw_trace)

\* C6 as stated: authentication is enabled whenever API_KEY_REQUIRED is not the
\* string "false".
C6_AsStated ==
    /\ (env.API_KEY_REQUIRED # <<STR_FALSE>> /\ KeyAbsentOrDiffers) => StoppedAtGate
    /\ env.API_KEY_REQUIRED = <<STR_FALSE>> => PassedGate

\* C6: when API_KEY_REQUIRED, lower-cased, is not "false", a request whose
\* x-api-key is absent or differs from the configured API_KEY is rejected with
\* 403 before path validation and before any generation step; when it is
\* "false" in any letter case the request is admitted whatever the header.
C6_AuthGate ==
    /\ (Lower(Getenv("API_KEY_REQUIRED", STR_TRUE)) # STR_FALSE /\ KeyAbsentOrDiffers)
          => StoppedAtGate
    /\ Lower(Getenv("API_KEY_REQUIRED", STR_TRUE)) = STR_FALSE => PassedGate

C6_Witness ==
    /\ gw_pc = "done"
    /\ env.API_KEY_REQUIRED = <<>>
    /\ x_api_key = <<"secret">>
    /\ env.API_KEY = <<>>
    /\ HasOffendingPath
    /\ RejectedWith(403)
    /\ gw_trace = <<"verify_api_key">>

(***************************************************************************)
(* Properties of the resilient generators                                  *)
(***************************************************************************)
SdkDone == sdk_pc = "done"

\* the shape of a report document: the five fields, one header section and a
\* non-empty main list
WellFormed(doc) ==
    /\ {"reportId", "title", "createdAt", "createdBy", "sections"} \subseteq DOMAIN doc
    /\ Len(doc.sections.header) = 1
    /\ Len(doc.sections.main) >= 1

BackendFailed == sdk_outcome[1].kind = "raise"

\* the final output is a text with no fenced block that is not JSON
Unparseable ==
    /\ sdk_outcome[1].kind = "str"
    /\ \A k \in 1..Len(sdk_outcome[1].value) : ~IsFence(sdk_outcome[1].value[k])
    /\ ~json_loads(sdk_outcome[1].value).ok

\* C8: in either resilient generator, when the backend call fails or the final
\* output has no fenced block and is not JSON, generate_report returns the
\* well-formed fallback document and no error object.
C8_AsStated ==
    (SdkDone /\ (BackendFailed \/ Unparseable)) =>
        /\ sdk_return[1].branch = "fallback"
        /\ "error" \notin DOMAIN sdk_return[1].value
        /\ WellFormed(sdk_return[1].value)

Assembled == generate_report(user_request, s3_paths, timestamp, now)

PipeDone == pipe_pc = "DONE"

\* what process_csv_report hands back, read as a caller reads it
ReturnedDocument == CoerceGenerate(pipe_return[1]).value[1]

\* C7 as stated: every document returned by a generation path (mock assembler,
\* resilient SDK variants, strict stage pipeline) carries reportId, createdAt
\* and createdBy; a field the upstream generation output omits is synthesized
\* before the document is returned. Checked here on the strict stage pipeline.
C7_AsStated ==
    PipeDone =>
        /\ ReturnedDocument.kind = "object"
        /\ StampFields \subseteq DOMAIN ReturnedDocument.value

StageOf(i) == calls[i].stage

\* the stages of a complete run over csv_files, COMPLETION included when the
\* gap analysis that has been stored asks for it
ExpectedOrder ==
    <<"GOAL">> \o [k \in 1..Len(csv_files) |-> "METADATA"] \o <<"REQUIREMENT", "GAP">>
        \o (IF gaps # <<>> /\ NeedsCompletion(gaps[1]) THEN <<"COMPLETION">> ELSE <<>>)
        \o <<"PLAN", "DESIGN", "GENERATE", "VALIDATE">>

LastFailed == calls # <<>> /\ ~calls[Len(calls)].ok

\* C10: in every run of process_csv_report the backend calls issued so far are
\* a prefix of GOAL, METADATA once per file (in file order), REQUIREMENT, GAP,
\* COMPLETION (only when the gap analysis reports missing columns or periods),
\* PLAN, DESIGN, GENERATE, VALIDATE; every call but the last has succeeded, a
\* failed call ends the run, the run is at the next stage of that order
\* otherwise, and DONE is reached only when the whole order has succeeded.
C10_StageOrder ==
    /\ Len(calls) <= Len(ExpectedOrder)
    /\ \A i \in 1..Len(calls) : StageOf(i) = ExpectedOrder[i]
    /\ \A i \in 1..Len(calls) :
        StageOf(i) = "METADATA" => calls[i].payload = <<csv_files[i - 1]>>
    /\ \A i \in 1..(Len(calls) - 1) : calls[i].ok
    /\ pipe_pc = IF LastFailed THEN "FAILED"
                 ELSE IF Len(calls) = Len(ExpectedOrder) THEN "DONE"
                 ELSE ExpectedOrder[Len(calls) + 1]

C10_Witness ==
    /\ PipeDone
    /\ Len(csv_files) = 2
    /\ \E i \in 1..Len(calls) : StageOf(i) = "COMPLETION"
    /\ Len(calls) = Len(csv_files) + 8

LastCall == calls[Len(calls)]

\* C11 as stated: when a stage from GOAL through GENERATE fails (backend error,
\* empty output or coercion failure), the run aborts with an error that
\* identifies the failing stage and the cause, no later stage runs and no
\* document is returned. The naming of the stage is asked only of the errors
\* process_csv_report raises itself, not of those the backend raises.
C11_AsStated ==
    (LastFailed /\ LastCall.stage # "VALIDATE") =>
        /\ pipe_pc = "FAILED"
        /\ pipe_return = <<>>
        /\ pipe_error[1].cause # "BackendError" =>
              NamedStage(pipe_error[1]) = LastCall.stage

\* C12: whatever the Validation stage's final output (valid, issues reported,
\* prose, nothing), a Validation call that returns takes the run to DONE and
\* the value returned is the final output of the GENERATE stage, unchanged.
C12_AdvisoryVerdict ==
    [][(pipe_pc = "VALIDATE" /\ stage_raw'[1].kind # "raise") =>
          /\ pipe_pc' = "DONE"
          /\ json_result' = json_result
          /\ pipe_return' = json_result]_vars

C12_Witness ==
    /\ PipeDone
    /\ stage_raw[1].kind = "dict"
    /\ "has_issues" \in DOMAIN stage_raw[1].value[1]
    /\ pipe_return = json_result
    /\ pipe_return # <<>>

\* C13 as stated: at every stage from Goal to Generate an empty raw output
\* fails the stage with the empty-output error naming that stage, before any
\* coercion of the value.
C13_AsStated ==
    (LastFailed /\ LastCall.stage # "VALIDATE" /\ EmptyOutput(stage_raw[1])) =>
        /\ pipe_error[1].cause = "ValueError"
        /\ pipe_error[1].message = EmptyMessage(LastCall.stage)

LastStage == IF calls = <<>> THEN "none" ELSE LastCall.stage

\* the final output that is the record's JSON text inside a json fenced block
FencedText(body) == Str(Fenced(NL, body))

RequiredOf(rec, required) == [f \in required |-> rec[f]]

\* C14 as stated: at every stage, for every record of the stage's shape, a
\* final output that is the record encoded as JSON inside a json fenced block
\* is coerced to a record equal to the original on every required field.
C14_AsStated ==
    /\ LastStage = "GOAL" =>
          /\ stage_raw[1] = FencedText(json_dumps(GOAL_REC, GoalFields)) =>
                (LastCall.ok /\ goal[1] = GOAL_REC)
          /\ stage_raw[1] = FencedText(json_dumps_embedded(GOAL_EMBEDDED, GoalFields, "goal")) =>
                (LastCall.ok /\ goal[1] = GOAL_EMBEDDED)
    /\ LastStage = "METADATA" =>
          \A file \in {LastCall.payload[1]} :
              stage_raw[1] = FencedText(json_dumps(MetaRec(file), MetaFields)) =>
                  /\ LastCall.ok
                  /\ csv_metadata_results[Len(csv_metadata_results)] = MetaRec(file)
    /\ LastStage = "REQUIREMENT" =>
          (stage_raw[1] = FencedText(json_dumps(REQ_REC, ReqFields)) =>
              (LastCall.ok /\ requirements[1] = REQ_REC))
    /\ LastStage = "GAP" =>
          \A g \in GapRecs :
              stage_raw[1] = FencedText(json_dumps(g, GapFields)) =>
                  (LastCall.ok /\ gaps[1] = g)
    /\ LastStage = "PLAN" =>
          (stage_raw[1] = Str(FencedAs("fence_json", NL, json_dumps_list(PLAN_SECTIONS))) =>
              /\ LastCall.ok
              /\ Len(sections) = Len(PLAN_SECTIONS)
              /\ \A k \in 1..Len(sections) :
                    RequiredOf(sections[k], {"title", "subsections"}) = PLAN_SECTIONS[k])
    /\ LastStage = "DESIGN" =>
          \A d \in DesignRecs :
              stage_raw[1] = FencedText(json_dumps(d, <<"sections">>)) =>
                  /\ LastCall.ok
                  /\ Len(sections) = Len(d.sections)
                  /\ \A k \in 1..Len(sections) :
                        RequiredOf(sections[k], {"title", "subsections"})
                            = RequiredOf(d.sections[k], {"title", "subsections"})
    /\ LastStage = "GENERATE" =>
          \A d \in GenDocs :
              stage_raw[1] = FencedText(json_dumps(d, DocFields)) =>
                  (LastCall.ok /\ final_json[1].value = d)

MetadataCalls == {i \in 1..Len(calls) : StageOf(i) = "METADATA"}

PastMetadata ==
    \/ pipe_pc \in {"REQUIREMENT", "GAP", "COMPLETION", "PLAN", "DESIGN", "GENERATE",
                    "VALIDATE", "DONE"}
    \/ \E i \in 1..Len(calls) : StageOf(i) \notin {"GOAL", "METADATA"}

\* C17: the i-th entry of the metadata list is the coerced output of the
\* Metadata call made on the i-th input file, the Metadata calls are made on
\* the files in input order, one call per file, and once the run is past
\* METADATA the list has one entry for every file.
C17_MetadataOrder ==
    /\ Len(csv_metadata_results) <= Len(csv_files)
    /\ \A i \in MetadataCalls : calls[i].payload = <<csv_files[i - 1]>>
    /\ \A i \in 1..Len(csv_metadata_results) :
          /\ (i + 1) \in MetadataCalls
          /\ calls[i + 1].ok
          /\ csv_metadata_results[i].id = csv_files[i]
    /\ (LastStage = "METADATA" /\ LastCall.ok) =>
          csv_metadata_results[Len(csv_metadata_results)]
              = CoerceMetadata(stage_raw[1]).value[1]
    /\ PastMetadata =>
          /\ Len(csv_metadata_results) = Len(csv_files)
          /\ Cardinality(MetadataCalls) = Len(csv_files)

C17_Witness ==
    /\ pipe_pc = "REQUIREMENT"
    /\ Len(csv_files) = 2
    /\ csv_files[1] # csv_files[2]
    /\ Len(csv_metadata_results) = 2
    /\ csv_metadata_results[1].id = csv_files[1]
    /\ csv_metadata_results[2].id = csv_files[2]

CompletionCalled == \E i \in 1..Len(calls) : StageOf(i) = "COMPLETION"

HasMissing == gaps[1].missing_columns # <<>> \/ gaps[1].missing_periods # <<>>

\* C18: the Completion call is issued exactly in the runs whose stored DataGap
\* has a non-empty missing_columns or missing_periods: once GAP has succeeded
\* such a run is about to issue the call or has issued it, and no other run
\* ever does, a granularity_mismatch note alone not counting.
C18_CompletionGuard ==
    /\ CompletionCalled => (gaps # <<>> /\ HasMissing)
    /\ pipe_pc = "COMPLETION" => (gaps # <<>> /\ HasMissing /\ ~CompletionCalled)
    /\ (gaps # <<>> /\ HasMissing) => (pipe_pc = "COMPLETION" \/ CompletionCalled)

C18_Witness ==
    /\ pipe_pc = "PLAN"
    /\ gaps # <<>>
    /\ gaps[1].granularity_mismatch # NONE
    /\ ~HasMissing
    /\ ~CompletionCalled

\* C19: the payload of the PLAN call carries the goal, the requirements and
\* the metadata list that the GAP call carried and that the run still holds,
\* whether or not the Completion call was made in between and whatever it
\* returned.
C19_CompletionFrame ==
    \A i, j \in 1..Len(calls) :
        (StageOf(i) = "PLAN" /\ StageOf(j) = "GAP") =>
            /\ calls[i].payload[1].goal = calls[j].payload[1].goal
            /\ calls[i].payload[1].requirements = calls[j].payload[1].requirements
            /\ calls[i].payload[1].metadata = calls[j].payload[1].csv_metadata
            /\ calls[i].payload[1]
                  = [goal |-> goal[1], requirements |-> requirements[1],
                     metadata |-> csv_metadata_results]

C19_Witness ==
    /\ \E i \in 1..Len(calls) : StageOf(i) = "PLAN"
    /\ CompletionCalled
    /\ completer_dict # <<>>
    /\ csv_metadata_results # <<>>

\* C20 as stated: at every stage, a final output that is a text with no fenced
\* block and is itself the JSON of a record of the stage's shape is parsed
\* whole, and the coercion succeeds with that record.
C20_AsStated ==
    /\ LastStage = "GOAL" =>
          (stage_raw[1] = Str(json_dumps(GOAL_REC, GoalFields)) =>
              (LastCall.ok /\ goal[1] = GOAL_REC))
    /\ LastStage = "METADATA" =>
          \A file \in {LastCall.payload[1]} :
              stage_raw[1] = Str(json_dumps(MetaRec(file), MetaFields)) =>
                  /\ LastCall.ok
                  /\ csv_metadata_results[Len(csv_metadata_results)] = MetaRec(file)
    /\ LastStage = "REQUIREMENT" =>
          (stage_raw[1] = Str(json_dumps(REQ_REC, ReqFields)) =>
              (LastCall.ok /\ requirements[1] = REQ_REC))
    /\ LastStage = "GAP" =>
          \A g \in GapRecs :
              stage_raw[1] = Str(json_dumps(g, GapFields)) =>
                  (LastCall.ok /\ gaps[1] = g)
    /\ LastStage = "PLAN" =>
          (stage_raw[1] = Str(json_dumps_list(PLAN_SECTIONS)) =>
              /\ LastCall.ok
              /\ Len(sections) = Len(PLAN_SECTIONS)
              /\ \A k \in 1..Len(sections) :
                    RequiredOf(sections[k], {"title", "subsections"}) = PLAN_SECTIONS[k])
    /\ LastStage = "DESIGN" =>
          \A d \in DesignRecs :
              stage_raw[1] = Str(json_dumps(d, <<"sections">>)) =>
                  /\ LastCall.ok
                  /\ Len(sections) = Len(d.sections)
    /\ LastStage = "GENERATE" =>
          \A d \in GenDocs :
              stage_raw[1] = Str(json_dumps(d, DocFields)) =>
                  (LastCall.ok /\ final_json[1].value = d)

(***************************************************************************)
(* Properties of requests handled together                                 *)
(***************************************************************************)
\* the report request r gets when it is the only request
Alone(r) == generate_report(requests[r].user_request, requests[r].s3_paths, 0, 0)

S3Values(report) ==
    {report.sections.main[k].contents[1].value :
        k \in {n \in 1..Len(report.sections.main) :
                  report.sections.main[n].contents[1].source = "S3"}}

\* C26: under every interleaving of two POST /generate-report requests, a
\* report returned for a request has the title and the sections of the report
\* the request gets when handled alone, refers to paths of its own list only,
\* and a rejection names a path of the request's own list.
C26_Isolation ==
    \A r \in Requests :
        /\ requests[r].report # <<>> =>
              /\ requests[r].report[1].title = Alone(r).title
              /\ requests[r].report[1].sections = Alone(r).sections
              /\ \A p \in S3Values(requests[r].report[1]) : InList(p, requests[r].s3_paths)
              /\ requests[r].response[1].report = requests[r].report[1]
        /\ (requests[r].pc = "done" /\ requests[r].raised # <<>>) =>
              /\ requests[r].report = <<>>
              /\ InList(requests[r].raised[1].detail.path, requests[r].s3_paths)

C26_Witness ==
    /\ \A r \in Requests : requests[r].pc = "done" /\ requests[r].report # <<>>
    /\ requests[1].user_request # requests[2].user_request
    /\ requests[1].s3_paths # requests[2].s3_paths
    /\ requests[1].report[1].sections # requests[2].report[1].sections
    /\ requests[1].timestamp # requests[2].timestamp

CallsOf(stage) == {i \in 1..Len(calls) : StageOf(i) = stage}

AtMostOnce ==
    /\ \A stage \in {"GOAL", "REQUIREMENT", "GAP", "COMPLETION", "PLAN", "DESIGN",
                     "GENERATE", "VALIDATE"} : Cardinality(CallsOf(stage)) <= 1
    /\ Cardinality(CallsOf("METADATA")) <= Len(csv_files)
    /\ \A i, j \in CallsOf("METADATA") :
          i < j => \E m, n \in 1..Len(csv_files) :
                      /\ m < n
                      /\ calls[i].payload = <<csv_files[m]>>
                      /\ calls[j].payload = <<csv_files[n]>>
    /\ \A i \in 1..(Len(calls) - 1) : calls[i].ok

\* C24: in a run every stage's backend call is issued at most once, the
\* Metadata call at most once per input file, no call follows a call that has
\* failed, and a run in which a stage has failed takes no further step.
C24_NoRetry == [][pipe_pc # "FAILED" /\ AtMostOnce']_vars

C24_Witness ==
    /\ LastFailed
    /\ LastStage = "METADATA"
    /\ Len(csv_files) = 2
    /\ Len(calls) = 3
    /\ pipe_pc = "FAILED"

DesignSucceeded == \E i \in 1..Len(calls) : StageOf(i) = "DESIGN" /\ calls[i].ok

\* C25 as stated: once DESIGN has succeeded, every section of the list handed
\* to the GENERATE stage carries a component kind: none has component_type
\* absent or None.
C25_AsStated ==
    DesignSucceeded =>
        \A k \in 1..Len(sections) : sections[k].component_type # NONE

(***************************************************************************)
(* Properties of the Assistants generator                                  *)
(***************************************************************************)
\* generate_report has left its polling loop: it returned or it raised
LoopLeft == agent_pc \in {"returned", "raised"}

\* C28: once the run is in a terminal status (completed, failed, cancelled,
\* expired) the polling loop is left and generate_report ends.
C28_AsStated == (backend_status \in TerminalStatuses) ~> LoopLeft

\* the batch last submitted answers the required action last retrieved: one
\* output per call, with the call's id, in the order requested, an
\* error output for a function generate_report does not know, and sent
\* while run.status was requires_action
BatchAnswers(batch, requested) ==
    /\ batch.status = "requires_action"
    /\ Len(batch.outputs) = Len(requested)
    /\ \A k \in 1..Len(requested) :
        /\ batch.outputs[k].tool_call_id = requested[k].id
        /\ requested[k].name \notin KnownFunctions => batch.outputs[k].output.kind = "error"

\* C29: every pass of the polling loop that finds requires_action submits
\* exactly one batch, which holds one output per requested call with that
\* call's id and in the requested order, an unknown function giving an error
\* output; nothing is submitted in another status.
C29_AsStated ==
    /\ agent_pc # "tools" => submitted = observed
    /\ tool_outputs # <<>> => BatchAnswers(tool_outputs[1], tool_calls)

(***************************************************************************)
(* Properties of the credential lookup                                     *)
(***************************************************************************)
KeyDone == key_pc = "done"

\* OPENAI_API_KEY is set to a text that is not empty
EnvKeySet == key_environ["OPENAI_API_KEY"] \notin {<<>>, <<<<>>>>}

\* what the claim lets get_openai_api_key do when the lookup of the secret
\* is switched on (`on`) or off
KeyExpected(on, result) ==
    IF on /\ Truthy(get_secret(secret_response))
    THEN result.kind = "return" /\ result.value = get_secret(secret_response)
    ELSE IF EnvKeySet
    THEN result.kind = "return" /\ result.value = Text(key_environ["OPENAI_API_KEY"][1])
    ELSE result.kind = "ValueError"

\* a failure inside get_secret leaves only the environment value or ValueError
KeyFallsBack(result) ==
    (result.asked # <<>> /\ secret_response.kind = "raise") =>
        IF EnvKeySet
        THEN result.kind = "return" /\ result.value = Text(key_environ["OPENAI_API_KEY"][1])
        ELSE result.kind = "ValueError"

\* C30 as stated: the secret is returned when USE_SECRETS_MANAGER is "true"
\* and retrieval yields a non-empty secret; otherwise the non-empty
\* OPENAI_API_KEY; otherwise ValueError; a failure inside get_secret falls
\* back to the environment.
C30_AsStated ==
    KeyDone =>
        /\ KeyExpected(key_environ["USE_SECRETS_MANAGER"] = <<STR_TRUE>>, key_return[1])
        /\ KeyFallsBack(key_return[1])

\* C30 amended: the same, the secret being looked up when USE_SECRETS_MANAGER
\* is "true" in any letter case ("TRUE", "True", ...).
C30_AnyCase ==
    KeyDone =>
        /\ KeyExpected(key_environ["USE_SECRETS_MANAGER"] # <<>>
                           /\ Lower(key_environ["USE_SECRETS_MANAGER"][1]) = STR_TRUE,
                       key_return[1])
        /\ KeyFallsBack(key_return[1])

\* the secret was returned although OPENAI_API_KEY is set, under a switch
\* that is not written in lower case
C30_Witness ==
    /\ KeyDone
    /\ EnvKeySet
    /\ key_environ["USE_SECRETS_MANAGER"] = <<<<"T", "R", "U", "E">>>>
    /\ key_return[1].asked # <<>>
    /\ key_return[1].kind = "return"
    /\ key_return[1].value = Text(<<"sk-json">>)
====
